---- MODULE Spec2Model ----
(***************************************************************************)
(* Model of the AI-generation resilience pipeline of codeSwipe's curator   *)
(* service: the circuit-breaker retry controller (retryHandler.js), the    *)
(* generation orchestrator (enhancedGeminiService.js), the schema          *)
(* validator (responseValidator.js), the fallback provider                 *)
(* (jsonSanitizer.js, cacheManager.js), the text functions of the parsing  *)
(* pipeline (jsonSanitizer.js, progressiveParser.js, memoryMonitor.js,     *)
(* jsonParsingPipeline.js) and the Firestore upsert of the server.         *)
(*                                                                         *)
(* Time (Date.now()) is counted in ticks of 10 000 ms.                     *)
(***************************************************************************)
EXTENDS Integers, Sequences, FiniteSets, TLC

VARIABLES
    now,              \* Date.now(), in ticks
    circuitBreaker,   \* the module-level breaker object of retryHandler.js
    calls,            \* direct retryWithBackoff calls, one record per slot
    event,            \* history: what the last step did, and the class of its error
    openedAt,         \* history: when the breaker last went from not-open to open
    sinceHalfOpen,    \* history: successes recorded since the breaker entered half_open
    consecutiveFailures, \* EnhancedGeminiService.consecutiveFailures
    requests,         \* generateQuestionWithGemini calls, one record per slot
    recentChallenges, \* recentChallenges: titles of the last selections
    fallbackCache,    \* cacheManager.js fallbackCache: key -> entry
    questions,        \* the Firestore collection Questions: per document, the set() calls made
    handlers,         \* POST /api/getQuestion handlers, one record per slot
    memoryCache,      \* an InMemoryCache: its Maps cache and accessOrder
    rateLimiter,      \* the RateLimiter: its Map requests, identifier -> request times
    allowedTimes      \* history: per identifier, the times at which isAllowed returned allowed

cbVars == <<now, circuitBreaker, calls, event, openedAt, sinceHalfOpen>>

(***************************************************************************)
(* Bounds of the model.                                                    *)
(***************************************************************************)
MaxTime == 4          \* the clock stops here
NumCalls == 1         \* concurrent retryWithBackoff calls
MaxFailures == 7      \* no new call begins once failureCount has reached this
MaxAttemptsBound == 3 \* callers choose maxAttempts in 1..MaxAttemptsBound
NumRequests == 1      \* concurrent generateQuestionWithGemini calls
MaxConsecutive == 3   \* no new request begins once consecutiveFailures has reached this
MaxClock == 1
MaxFallbackClock == 61         \* the clock stops here while requests are served
MaxParseLength == 5   \* parse is applied to every text of at most this many characters
MaxRepairLength == 4  \* repairCommonIssues is applied to every text of at most this many characters
MaxStreamLength == 4  \* the streaming scanner is applied to every text of at most this many characters
MaxChunkSize == 3     \* maxChunkSize is chosen in 1..MaxChunkSize
MaxCases == 3         \* validate is applied to data with at most this many test cases
MaxSanitizeLength == 4  \* sanitize is applied to every text of at most this many characters
StepsPerRun == 16       \* a loop over a text is evaluated this many iterations at a time
NumHandlers == 2      \* concurrent POST /api/getQuestion handlers
NumHashes == 2        \* distinct content hashes
MaxTailLength == 2    \* processResponse is applied to responses that end in at most this many chosen characters
NumKeys == 4          \* distinct cache keys
NumIdentifiers == 2   \* distinct client identifiers of the rate limiter

CallIds == 1..NumCalls
ReqIds == 1..NumRequests
HandlerIds == 1..NumHandlers
Hashes == 1..NumHashes
CacheKeys == 1..NumKeys
Identifiers == 1..NumIdentifiers

orchVars == <<consecutiveFailures, requests, recentChallenges, fallbackCache>>
utilVars == <<memoryCache, rateLimiter, allowedTimes>>
storeVars == <<questions, handlers, memoryCache, rateLimiter, allowedTimes>>
vars == <<now, circuitBreaker, calls, event, openedAt, sinceHalfOpen,
          consecutiveFailures, requests, recentChallenges, fallbackCache, questions, handlers,
          memoryCache, rateLimiter, allowedTimes>>

(***************************************************************************)
(* retryHandler.js                                                         *)
(***************************************************************************)
NULL == -1

\* DEFAULT_CONFIG.circuitBreakerThreshold
circuitBreakerThreshold == 5
\* DEFAULT_CONFIG.circuitBreakerTimeout: 30000 ms = 3 ticks
circuitBreakerTimeout == 3
\* a backoff sleep lasts at most maxDelay * 1.25 = 6250 ms: the clock moves
\* by at most one tick while a call sleeps
MaxSleepTicks == 1

\* An error is modelled by the set of the classifier's keywords that its
\* lower-cased message contains.
Keywords == {"network", "timeout", "connection", "json", "parse", "syntax",
             "quota", "limit", "rate", "validation", "schema", "required"}

\* 'Circuit breaker is open - too many recent failures' contains no keyword
CircuitOpenError == {}

\* the messages the attempt function is made to throw
ErrorMessages == { {"timeout"}, {"json"}, {"quota"}, {"validation"}, {},
                   {"validation", "timeout"} }

classifyError(error) ==
    IF error \cap {"network", "timeout", "connection"} # {} THEN "network"
    ELSE IF error \cap {"json", "parse", "syntax"} # {} THEN "parsing"
    ELSE IF error \cap {"quota", "limit", "rate"} # {} THEN "api_limit"
    ELSE IF error \cap {"validation", "schema", "required"} # {} THEN "validation"
    ELSE "unknown"

\* mutant: a validation error is retried like a network error
shouldRetry_validation(error, attempt, maxAttempts) ==
    IF attempt >= maxAttempts THEN FALSE
    ELSE CASE classifyError(error) = "network" -> TRUE
           [] classifyError(error) = "parsing" -> attempt < 2
           [] classifyError(error) = "api_limit" -> TRUE
           [] classifyError(error) = "validation" -> TRUE
           [] classifyError(error) = "unknown" -> attempt < 2
           [] OTHER -> FALSE

\* mutant: parsing and unknown errors are retried twice
shouldRetry_twice(error, attempt, maxAttempts) ==
    IF attempt >= maxAttempts THEN FALSE
    ELSE CASE classifyError(error) = "network" -> TRUE
           [] classifyError(error) = "parsing" -> attempt < 3
           [] classifyError(error) = "api_limit" -> TRUE
           [] classifyError(error) = "validation" -> FALSE
           [] classifyError(error) = "unknown" -> attempt < 3
           [] OTHER -> FALSE

\* mutant: a rate-limit error is retried once only
shouldRetry_limitOnce(error, attempt, maxAttempts) ==
    IF attempt >= maxAttempts THEN FALSE
    ELSE CASE classifyError(error) = "network" -> TRUE
           [] classifyError(error) = "parsing" -> attempt < 2
           [] classifyError(error) = "api_limit" -> attempt < 2
           [] classifyError(error) = "validation" -> FALSE
           [] classifyError(error) = "unknown" -> attempt < 2
           [] OTHER -> FALSE

shouldRetry(error, attempt, maxAttempts) ==
    IF attempt >= maxAttempts THEN FALSE
    ELSE CASE classifyError(error) = "network" -> TRUE
           [] classifyError(error) = "parsing" -> attempt < 2
           [] classifyError(error) = "api_limit" -> TRUE
           [] classifyError(error) = "validation" -> FALSE
           [] classifyError(error) = "unknown" -> attempt < 2
           [] OTHER -> FALSE

InitialBreaker ==
    [state |-> "closed", failureCount |-> 0, lastFailureTime |-> NULL, successCount |-> 0]

\* mutant: the cooldown test uses >= instead of >
checkCircuitBreaker_geq(cb, t) ==
    IF cb.state = "open"
    THEN IF t - cb.lastFailureTime >= circuitBreakerTimeout
         THEN [ok |-> TRUE, cb |-> [cb EXCEPT !.state = "half_open", !.successCount = 0]]
         ELSE [ok |-> FALSE, cb |-> cb]
    ELSE [ok |-> TRUE, cb |-> cb]

\* mutant: the end of the cooldown closes the breaker at once
checkCircuitBreaker_closes(cb, t) ==
    IF cb.state = "open"
    THEN IF t - cb.lastFailureTime > circuitBreakerTimeout
         THEN [ok |-> TRUE, cb |-> [cb EXCEPT !.state = "closed", !.successCount = 0]]
         ELSE [ok |-> FALSE, cb |-> cb]
    ELSE [ok |-> TRUE, cb |-> cb]

\* returns whether the attempt is admitted, and the breaker afterwards
checkCircuitBreaker(cb, t) ==
    IF cb.state = "open"
    THEN IF t - cb.lastFailureTime > circuitBreakerTimeout
         THEN [ok |-> TRUE, cb |-> [cb EXCEPT !.state = "half_open", !.successCount = 0]]
         ELSE [ok |-> FALSE, cb |-> cb]
    ELSE [ok |-> TRUE, cb |-> cb]

Max(a, b) == IF a >= b THEN a ELSE b

\* mutant: one success in half_open closes the breaker
recordSuccess_one(cb) ==
    IF cb.state = "half_open"
    THEN IF cb.successCount + 1 >= 1
         THEN [cb EXCEPT !.successCount = cb.successCount + 1, !.state = "closed",
                         !.failureCount = 0, !.lastFailureTime = NULL]
         ELSE [cb EXCEPT !.successCount = cb.successCount + 1]
    ELSE IF cb.state = "closed"
    THEN [cb EXCEPT !.failureCount = Max(0, cb.failureCount - 1)]
    ELSE cb

\* mutant: closing the breaker leaves failureCount as it is
recordSuccess_keepCount(cb) ==
    IF cb.state = "half_open"
    THEN IF cb.successCount + 1 >= 2
         THEN [cb EXCEPT !.successCount = cb.successCount + 1, !.state = "closed",
                         !.lastFailureTime = NULL]
         ELSE [cb EXCEPT !.successCount = cb.successCount + 1]
    ELSE IF cb.state = "closed"
    THEN [cb EXCEPT !.failureCount = Max(0, cb.failureCount - 1)]
    ELSE cb

recordSuccess(cb) ==
    IF cb.state = "half_open"
    THEN IF cb.successCount + 1 >= 2
         THEN [cb EXCEPT !.successCount = cb.successCount + 1, !.state = "closed",
                         !.failureCount = 0, !.lastFailureTime = NULL]
         ELSE [cb EXCEPT !.successCount = cb.successCount + 1]
    ELSE IF cb.state = "closed"
    THEN [cb EXCEPT !.failureCount = Max(0, cb.failureCount - 1)]
    ELSE cb

\* mutant: the threshold test uses > instead of >=
recordFailure_gt(cb, t) ==
    LET n == cb.failureCount + 1 IN
    [cb EXCEPT !.failureCount = n, !.lastFailureTime = t,
               !.state = IF n > circuitBreakerThreshold THEN "open" ELSE cb.state]

\* mutant: only a closed breaker is opened
recordFailure_closedOnly(cb, t) ==
    LET n == cb.failureCount + 1 IN
    [cb EXCEPT !.failureCount = n, !.lastFailureTime = t,
               !.state = IF n >= circuitBreakerThreshold /\ cb.state = "closed"
                         THEN "open" ELSE cb.state]

recordFailure(cb, t) ==
    LET n == cb.failureCount + 1 IN
    [cb EXCEPT !.failureCount = n, !.lastFailureTime = t,
               !.state = IF n >= circuitBreakerThreshold THEN "open" ELSE cb.state]

IdleCall ==
    [pc |-> "idle", attempt |-> 0, maxAttempts |-> 0, wakeBy |-> 0,
     invoked |-> 0, rejected |-> 0]

\* retryWithBackoff, the catch block: record the failure, then retry after a
\* sleep or leave the loop and throw
retryCatch(cb, call, error, t) ==
    LET cb2 == recordFailure(cb, t) IN
    IF shouldRetry(error, call.attempt, call.maxAttempts)
    THEN [cb |-> cb2,
          call |-> [call EXCEPT !.pc = "sleep", !.wakeBy = t + MaxSleepTicks]]
    ELSE [cb |-> cb2, call |-> [call EXCEPT !.pc = "thrown"]]

\* retryWithBackoff, the top of the loop body for attempt call.attempt: check
\* the breaker, then invoke the attempt function (and await it) or throw the
\* circuit-open error into the catch block
retryAttempt(cb, call, t) ==
    LET chk == checkCircuitBreaker(cb, t) IN
    IF chk.ok
    THEN [cb |-> chk.cb,
          call |-> [call EXCEPT !.pc = "inflight", !.invoked = call.invoked + 1]]
    ELSE retryCatch(chk.cb, [call EXCEPT !.rejected = call.rejected + 1],
                    CircuitOpenError, t)

\* history: the time of the last not-open -> open transition
OpenedAt(cbOld, cbNew, t) ==
    IF cbNew.state = "open" /\ cbOld.state # "open" THEN t ELSE openedAt

\* history: successes since the breaker entered half_open (0 outside half_open)
SinceHalfOpen(cbOld, cbNew, success) ==
    IF cbNew.state # "half_open" THEN 0
    ELSE IF cbOld.state # "half_open" THEN 0
    ELSE IF success THEN sinceHalfOpen + 1 ELSE sinceHalfOpen

\* a finished call leaves only its outcome in its slot; the counters of the
\* call are kept in event.call for the step that ended it
Settle(call) ==
    IF call.pc \in {"returned", "thrown"} THEN [IdleCall EXCEPT !.pc = call.pc] ELSE call

Free(c) == calls[c].pc \in {"idle", "returned", "thrown"}

\* a caller begins retryWithBackoff(asyncFunction, {maxAttempts: m}); it takes
\* the lowest free slot
StartCall(c, m) ==
    /\ Free(c)
    /\ \A d \in CallIds : d < c => ~Free(d)
    /\ circuitBreaker.failureCount < MaxFailures
    /\ LET r == retryAttempt(circuitBreaker,
                             [IdleCall EXCEPT !.attempt = 1, !.maxAttempts = m], now) IN
       /\ circuitBreaker' = r.cb
       /\ calls' = [calls EXCEPT ![c] = Settle(r.call)]
       /\ event' = [op |-> IF r.call.pc = "inflight" THEN "invoke" ELSE "reject",
                    c |-> c, call |-> r.call, from |-> circuitBreaker.state,
                    class |-> IF r.call.pc = "inflight" THEN "none"
                              ELSE classifyError(CircuitOpenError)]
       /\ openedAt' = OpenedAt(circuitBreaker, r.cb, now)
       /\ sinceHalfOpen' = SinceHalfOpen(circuitBreaker, r.cb, FALSE)
    /\ UNCHANGED <<now, orchVars>>
    /\ UNCHANGED storeVars

\* the backoff sleep of a call ends: next iteration of the loop
WakeCall(c) ==
    /\ calls[c].pc = "sleep"
    /\ LET r == retryAttempt(circuitBreaker,
                             [calls[c] EXCEPT !.attempt = calls[c].attempt + 1,
                                              !.wakeBy = 0], now) IN
       /\ circuitBreaker' = r.cb
       /\ calls' = [calls EXCEPT ![c] = Settle(r.call)]
       /\ event' = [op |-> IF r.call.pc = "inflight" THEN "invoke" ELSE "reject",
                    c |-> c, call |-> r.call, from |-> circuitBreaker.state,
                    class |-> IF r.call.pc = "inflight" THEN "none"
                              ELSE classifyError(CircuitOpenError)]
       /\ openedAt' = OpenedAt(circuitBreaker, r.cb, now)
       /\ sinceHalfOpen' = SinceHalfOpen(circuitBreaker, r.cb, FALSE)
    /\ UNCHANGED <<now, orchVars>>
    /\ UNCHANGED storeVars

\* the awaited attempt function resolves: recordSuccess, return result
AttemptSucceeds(c) ==
    /\ calls[c].pc = "inflight"
    /\ circuitBreaker' = recordSuccess(circuitBreaker)
    /\ calls' = [calls EXCEPT ![c] = Settle([calls[c] EXCEPT !.pc = "returned"])]
    /\ event' = [op |-> "success", c |-> c, call |-> [calls[c] EXCEPT !.pc = "returned"],
                 from |-> circuitBreaker.state, class |-> "none"]
    /\ sinceHalfOpen' = SinceHalfOpen(circuitBreaker, recordSuccess(circuitBreaker), TRUE)
    /\ UNCHANGED <<now, openedAt, orchVars>>
    /\ UNCHANGED storeVars

\* the awaited attempt function rejects with error e
AttemptFails(c, e) ==
    /\ calls[c].pc = "inflight"
    /\ LET r == retryCatch(circuitBreaker, calls[c], e, now) IN
       /\ circuitBreaker' = r.cb
       /\ calls' = [calls EXCEPT ![c] = Settle(r.call)]
       /\ event' = [op |-> "failure", c |-> c, call |-> r.call,
                    from |-> circuitBreaker.state, class |-> classifyError(e)]
       /\ openedAt' = OpenedAt(circuitBreaker, r.cb, now)
       /\ sinceHalfOpen' = SinceHalfOpen(circuitBreaker, r.cb, FALSE)
    /\ UNCHANGED <<now, orchVars>>
    /\ UNCHANGED storeVars

resetCircuitBreaker ==
    /\ circuitBreaker # InitialBreaker
    /\ circuitBreaker' = InitialBreaker
    /\ event' = [op |-> "reset", c |-> 0, call |-> IdleCall, from |-> circuitBreaker.state,
                 class |-> "none"]
    /\ sinceHalfOpen' = 0
    /\ UNCHANGED <<now, calls, openedAt, orchVars>>
    /\ UNCHANGED storeVars

\* the clock advances; a sleeping call wakes before its delay is exceeded
TickCB ==
    /\ now < MaxTime
    /\ \A c \in CallIds : calls[c].pc = "sleep" => calls[c].wakeBy > now
    /\ now' = now + 1
    /\ event' = [op |-> "tick", c |-> 0, call |-> IdleCall, from |-> circuitBreaker.state,
                 class |-> "none"]
    /\ UNCHANGED <<circuitBreaker, calls, openedAt, sinceHalfOpen, orchVars>>
    /\ UNCHANGED storeVars

(***************************************************************************)
(* JavaScript values.  A value is [t, v, n]: its type tag, the text that   *)
(* String(value) yields, and its element count when it is an array.  The   *)
(* tag "absent" stands for a key that the object does not have.            *)
(***************************************************************************)
Absent == [t |-> "absent", v |-> "undefined", n |-> 0]
Null == [t |-> "null", v |-> "null", n |-> 0]
Str(s) == [t |-> "str", v |-> s, n |-> 0]
Num(s) == [t |-> "num", v |-> s, n |-> 0]
Bool(s) == [t |-> "bool", v |-> s, n |-> 0]
Obj == [t |-> "obj", v |-> "[object Object]", n |-> 0]
Arr(s, k) == [t |-> "arr", v |-> s, n |-> k]

\* !!x
Truthy(x) ==
    CASE x.t \in {"absent", "null"} -> FALSE
      [] x.t = "bool" -> x.v = "true"
      [] x.t = "num" -> x.v \notin {"0", "NaN"}
      [] x.t = "str" -> x.v # ""
      [] OTHER -> TRUE

\* String(x)
String(x) == Str(x.v)

\* x.length < k, which is false when x.length is undefined
LengthBelow(x, k) ==
    CASE x.t = "str" -> Len(x.v) < k
      [] x.t = "arr" -> x.n < k
      [] OTHER -> FALSE

\* a testCases entry: an object with optional input/expected keys, or a
\* non-object value
TestCase(i, e) == [t |-> "obj", input |-> i, expected |-> e]
NonObjectCase(tag) == [t |-> tag, input |-> Absent, expected |-> Absent]

\* the testCases field: tag, entries when it is an array, and for a string
\* what JSON.parse makes of it ("error", "arr" with the entries in items, or
\* "other" for any other JSON value)
NoCases == [t |-> "absent", json |-> "error", items |-> <<>>]
CasesArray(items) == [t |-> "arr", json |-> "error", items |-> items]
CasesString(json, items) == [t |-> "str", json |-> json, items |-> items]
CasesOther(tag) == [t |-> tag, json |-> "error", items |-> <<>>]

CasesTruthy(tc) == tc.t \notin {"absent", "null"}

\* a metadata object; -1 stands for a numeric key that is not there
NoMetadata == [t |-> "absent", source |-> "", parsingMethod |-> "", fallbackReason |-> "",
               cacheHit |-> "absent", generationAttempts |-> -1, consecutiveFailures |-> -1]

\* a parsed value of kind k ("obj", "arr", "str", "num", "bool"); only an
\* object has the challenge keys
EmptyData(k) ==
    [k |-> k, title |-> Absent, language |-> Absent, difficulty |-> Absent,
     description |-> Absent, starterCode |-> Absent, solution |-> Absent,
     testCases |-> NoCases, metadata |-> NoMetadata]

(***************************************************************************)
(* responseValidator.js.  The confidence is an IEEE-754 double that the    *)
(* code lowers by repeated subtraction, so 1.0 - 0.2 - 0.05 * 4 is not the *)
(* double 0.6.  A double near a multiple of 0.05 is [n, d], standing for   *)
(* n/20 + d * 2^-59/5; in that unit 1/20 is 2^57 and every double with     *)
(* magnitude in [2^-5, 4) and every difference below it is an integer.     *)
(***************************************************************************)
Double(n, d) == [n |-> n, d |-> d]

\* the literals 1.0, 0.05, 0.1, 0.2 and 0.6 rounded to double
One == Double(20, 0)
Lit005 == Double(1, 8)
Lit01 == Double(2, 16)
Lit02 == Double(4, 32)
Lit06 == Double(12, -64)

\* a < b
LessThan(a, b) == a.n < b.n \/ (a.n = b.n /\ a.d < b.d)

\* 2^e mod 5
Pow2Mod5(e) == <<1, 2, 4, 3>>[(e % 4) + 1]

\* |x|
Magnitude(x) ==
    IF x.n < 0 \/ (x.n = 0 /\ x.d < 0) THEN Double(0 - x.n, 0 - x.d) ELSE x

\* q such that the spacing of doubles around x is 5 * 2^q units; 0 stands
\* for a magnitude below 2^-5, where a difference of two doubles is exact
BinadeOf(m) ==
    CASE m.n = 0 -> 0
      [] m.n > 40 \/ (m.n = 40 /\ m.d >= 0) -> 8
      [] m.n > 20 \/ (m.n = 20 /\ m.d >= 0) -> 7
      [] m.n > 10 \/ (m.n = 10 /\ m.d >= 0) -> 6
      [] m.n > 5 \/ (m.n = 5 /\ m.d >= 0) -> 5
      [] m.n >= 3 -> 4
      [] m.n = 2 -> 3
      [] OTHER -> 2

Binade(x) == BinadeOf(Magnitude(x))

\* x modulo twice the spacing 5 * 2^q
Residue(x, q) ==
    (2^(q + 1) * ((x.n * Pow2Mod5(56 - q)) % 5) + x.d) % (10 * 2^q)

\* x, which lies s above a double on the grid of spacing g and has residue r,
\* moved to the nearest double; a tie goes to the even significand
Nearest(x, g, r, s) ==
    IF s = 0 THEN x
    ELSE IF 2 * s < g \/ (2 * s = g /\ r = s) THEN Double(x.n, x.d - s)
    ELSE Double(x.n, x.d + g - s)

OnGrid(x, q, r) == IF q = 0 THEN x ELSE Nearest(x, 5 * 2^q, r, r % (5 * 2^q))

InBinade(x, q) == OnGrid(x, q, Residue(x, q))

\* round to nearest double, ties to the even significand
RoundToDouble(x) == InBinade(x, Binade(x))

\* a - b
Minus(a, b) == RoundToDouble(Double(a.n - b.n, a.d - b.d))

\* 0.1 * k
TimesLit01(k) == RoundToDouble(Double(2 * k, 16 * k))

\* k times: confidence -= y
RECURSIVE MinusTimes(_, _, _)
MinusTimes(c, y, k) ==
    IF k = 0 THEN c
    ELSE CHOOSE r \in {MinusTimes(lower, y, k - 1) : lower \in {Minus(c, y)}} : TRUE

Difficulties == {"Beginner", "Intermediate", "Advanced", "Expert"}

StringFields == <<"title", "language", "difficulty", "description", "starterCode", "solution">>

RECURSIVE SumSeq(_)
SumSeq(q) == IF q = <<>> THEN 0 ELSE Head(q) + SumSeq(Tail(q))

\* the number of 0.05 deductions for one testCases entry
CasePenalty(tc) ==
    IF tc.t # "obj" THEN 1
    ELSE (IF tc.input.t = "absent" THEN 1 ELSE 0) + (IF tc.expected.t = "absent" THEN 1 ELSE 0)

\* mutant: a confidence of 0.6 is too low as well
Verdict_atmost(conf) == [isValid |-> LessThan(Lit06, conf), confidence |-> conf]

\* if (result.confidence < 0.6) result.isValid = false
Verdict(conf) == [isValid |-> ~LessThan(conf, Lit06), confidence |-> conf]

\* data[f] && typeof data[f] !== 'string'
WrongType(x) == IF Truthy(x) /\ x.t # "str" THEN 1 ELSE 0

\* data[f] && data[f].length < k
Short(x, k) == IF Truthy(x) /\ LengthBelow(x, k) THEN 1 ELSE 0

\* the number of required fields that are not in data
Missing(data) ==
    Cardinality({i \in 1..6 : data[StringFields[i]].t = "absent"})
    + (IF data.testCases.t = "absent" THEN 1 ELSE 0)

\* the number of 0.1 deductions for field types
TypeIssues(data) ==
    WrongType(data.title) + WrongType(data.language)
    + (IF Truthy(data.difficulty)
          /\ ~(data.difficulty.t = "str" /\ data.difficulty.v \in Difficulties)
       THEN 1 ELSE 0)
    + WrongType(data.description) + WrongType(data.starterCode) + WrongType(data.solution)

\* the number of 0.05 deductions for the entries of an array testCases
CaseIssues(tc) ==
    IF tc.t = "arr"
    THEN SumSeq([i \in 1..Len(tc.items) |-> CasePenalty(tc.items[i])])
    ELSE 0

\* the number of 0.05 deductions for content quality
ShortIssues(data) ==
    Short(data.title, 3) + Short(data.description, 20)
    + Short(data.starterCode, 10) + Short(data.solution, 20)

\* confidence after the missing-field deduction
AfterMissing(k) == IF k > 0 THEN Minus(One, TimesLit01(k)) ELSE One

\* confidence after the testCases deductions: 0.2 once when testCases is
\* truthy and not an array, else 0.05 per issue of its entries
AfterCases(c, tc) ==
    IF CasesTruthy(tc) /\ tc.t # "arr" THEN Minus(c, Lit02)
    ELSE MinusTimes(c, Lit005, CaseIssues(tc))

validate(data) ==
    IF data.k \notin {"obj", "arr"}
    THEN [isValid |-> FALSE, confidence |-> Double(0, 0)]
    ELSE Verdict(MinusTimes(AfterCases(MinusTimes(AfterMissing(Missing(data)), Lit01,
                                                  TypeIssues(data)),
                                       data.testCases),
                            Lit005, ShortIssues(data)))

\* one entry of normalizeTypes' testCases.map
normalizeCase(tc) ==
    IF tc.t # "obj" THEN TestCase(Obj, Str(""))
    ELSE TestCase(IF Truthy(tc.input) THEN tc.input ELSE Obj,
                  IF tc.expected.t # "absent" THEN String(tc.expected) ELSE Str(""))

\* mutant: an object is passed on as it is
normalizeTypes_asIs(data) ==
    IF data.k \notin {"obj", "arr"} THEN EmptyData("obj") ELSE [data EXCEPT !.k = "obj"]

normalizeTypes(data) ==
    IF data.k \notin {"obj", "arr"} THEN EmptyData("obj")
    ELSE LET str(f) == IF Truthy(data[f]) /\ data[f].t # "str" THEN String(data[f]) ELSE data[f]
             tc0 == data.testCases
             tc1 == IF CasesTruthy(tc0) /\ tc0.t # "arr"
                    THEN IF tc0.t = "str"
                         THEN CASE tc0.json = "arr" -> CasesArray(tc0.items)
                                [] tc0.json = "other" -> CasesOther("num")
                                [] OTHER -> CasesArray(<<>>)
                         ELSE CasesArray(<<>>)
                    ELSE tc0
             tc2 == IF tc1.t = "arr"
                    THEN CasesArray([i \in 1..Len(tc1.items) |-> normalizeCase(tc1.items[i])])
                    ELSE tc1
         IN [data EXCEPT !.k = "obj",
                         !.title = str("title"), !.language = str("language"),
                         !.difficulty = str("difficulty"), !.description = str("description"),
                         !.starterCode = str("starterCode"), !.solution = str("solution"),
                         !.testCases = tc2]

applyDefaults(data) ==
    LET dflt(f, s) == IF ~Truthy(data[f]) THEN Str(s) ELSE data[f]
    IN [data EXCEPT !.title = dflt("title", "Coding Challenge"),
                    !.language = dflt("language", "JavaScript"),
                    !.difficulty = dflt("difficulty", "Intermediate"),
                    !.description = dflt("description", "Complete the coding challenge."),
                    !.starterCode = dflt("starterCode", "// Write your solution here"),
                    !.solution = dflt("solution", "// Solution not provided"),
                    !.testCases = IF ~CasesTruthy(data.testCases) \/ data.testCases.t # "arr"
                                  THEN CasesArray(<<>>) ELSE data.testCases]

(***************************************************************************)
(* jsonSanitizer.js: the fallback challenge table and getFallbackChallenge  *)
(***************************************************************************)
FALLBACK_CHALLENGES ==
    <<
     [key |-> "JavaScript", value |-> <<
       [key |-> "Beginner", value |-> <<
          [title |-> "Sum Two Numbers",
           description |-> "Write a function that takes two numbers and returns their sum.",
           starterCode |-> "function sum(a, b) {\n  // Your code here\n}",
           solution |-> "function sum(a, b) {\n  return a + b;\n}",
           testCases |-> <<TestCase(Obj, Str("5")), TestCase(Obj, Str("0")), TestCase(Obj, Str("0"))>>],
          [title |-> "Check Even Number",
           description |-> "Write a function that returns true if a number is even, false otherwise.",
           starterCode |-> "function isEven(num) {\n  // Your code here\n}",
           solution |-> "function isEven(num) {\n  return num % 2 === 0;\n}",
           testCases |-> <<TestCase(Obj, Str("true")), TestCase(Obj, Str("false")), TestCase(Obj, Str("true"))>>],
          [title |-> "String Length",
           description |-> "Write a function that returns the length of a string.",
           starterCode |-> "function getLength(str) {\n  // Your code here\n}",
           solution |-> "function getLength(str) {\n  return str.length;\n}",
           testCases |-> <<TestCase(Obj, Str("5")), TestCase(Obj, Str("0")), TestCase(Obj, Str("10"))>>]>>],
       [key |-> "Intermediate", value |-> <<
          [title |-> "Array Sum",
           description |-> "Write a function that calculates the sum of all numbers in an array.",
           starterCode |-> "function arraySum(numbers) {\n  // Your code here\n}",
           solution |-> "function arraySum(numbers) {\n  return numbers.reduce((sum, num) => sum + num, 0);\n}",
           testCases |-> <<TestCase(Obj, Str("10")), TestCase(Obj, Str("0")), TestCase(Obj, Str("0"))>>],
          [title |-> "Find Maximum",
           description |-> "Write a function that finds the maximum number in an array.",
           starterCode |-> "function findMax(numbers) {\n  // Your code here\n}",
           solution |-> "function findMax(numbers) {\n  return Math.max(...numbers);\n}",
           testCases |-> <<TestCase(Obj, Str("9")), TestCase(Obj, Str("-1")), TestCase(Obj, Str("42"))>>],
          [title |-> "Reverse String",
           description |-> "Write a function that reverses a string.",
           starterCode |-> "function reverseString(str) {\n  // Your code here\n}",
           solution |-> "function reverseString(str) {\n  return str.split('').reverse().join('');\n}",
           testCases |-> <<TestCase(Obj, Str("olleh")), TestCase(Obj, Str("tpircSavaJ")), TestCase(Obj, Str("a"))>>]>>],
       [key |-> "Advanced", value |-> <<
          [title |-> "Binary Search",
           description |-> "Implement binary search to find the index of a target value in a sorted array.",
           starterCode |-> "function binarySearch(arr, target) {\n  // Your code here\n}",
           solution |-> "function binarySearch(arr, target) {\n  let left = 0, right = arr.length - 1;\n  while (left <= right) {\n    const mid = Math.floor((left + right) / 2);\n    if (arr[mid] === target) return mid;\n    if (arr[mid] < target) left = mid + 1;\n    else right = mid - 1;\n  }\n  return -1;\n}",
           testCases |-> <<TestCase(Obj, Str("2")), TestCase(Obj, Str("0")), TestCase(Obj, Str("-1"))>>],
          [title |-> "Fibonacci Sequence",
           description |-> "Write a function that returns the nth number in the Fibonacci sequence.",
           starterCode |-> "function fibonacci(n) {\n  // Your code here\n}",
           solution |-> "function fibonacci(n) {\n  if (n <= 1) return n;\n  let a = 0, b = 1;\n  for (let i = 2; i <= n; i++) {\n    [a, b] = [b, a + b];\n  }\n  return b;\n}",
           testCases |-> <<TestCase(Obj, Str("0")), TestCase(Obj, Str("5")), TestCase(Obj, Str("55"))>>]>>]>>],
     [key |-> "Python", value |-> <<
       [key |-> "Beginner", value |-> <<
          [title |-> "Add Two Numbers",
           description |-> "Write a function that takes two numbers and returns their sum.",
           starterCode |-> "def add_numbers(a, b):\n    # Your code here\n    pass",
           solution |-> "def add_numbers(a, b):\n    return a + b",
           testCases |-> <<TestCase(Obj, Str("5")), TestCase(Obj, Str("0")), TestCase(Obj, Str("0"))>>],
          [title |-> "Check Odd Number",
           description |-> "Write a function that returns True if a number is odd, False otherwise.",
           starterCode |-> "def is_odd(num):\n    # Your code here\n    pass",
           solution |-> "def is_odd(num):\n    return num % 2 == 1",
           testCases |-> <<TestCase(Obj, Str("True")), TestCase(Obj, Str("False")), TestCase(Obj, Str("True"))>>]>>],
       [key |-> "Intermediate", value |-> <<
          [title |-> "List Average",
           description |-> "Write a function that calculates the average of numbers in a list.",
           starterCode |-> "def calculate_average(numbers):\n    # Your code here\n    pass",
           solution |-> "def calculate_average(numbers):\n    if not numbers:\n        return 0\n    return sum(numbers) / len(numbers)",
           testCases |-> <<TestCase(Obj, Str("2.5")), TestCase(Obj, Str("20.0")), TestCase(Obj, Str("0"))>>],
          [title |-> "Count Vowels",
           description |-> "Write a function that counts the number of vowels in a string.",
           starterCode |-> "def count_vowels(text):\n    # Your code here\n    pass",
           solution |-> "def count_vowels(text):\n    vowels = 'aeiouAEIOU'\n    return sum(1 for char in text if char in vowels)",
           testCases |-> <<TestCase(Obj, Str("2")), TestCase(Obj, Str("1")), TestCase(Obj, Str("0"))>>]>>],
       [key |-> "Advanced", value |-> <<
          [title |-> "Quick Sort",
           description |-> "Implement the quicksort algorithm to sort a list of numbers.",
           starterCode |-> "def quicksort(arr):\n    # Your code here\n    pass",
           solution |-> "def quicksort(arr):\n    if len(arr) <= 1:\n        return arr\n    pivot = arr[len(arr) // 2]\n    left = [x for x in arr if x < pivot]\n    middle = [x for x in arr if x == pivot]\n    right = [x for x in arr if x > pivot]\n    return quicksort(left) + middle + quicksort(right)",
           testCases |-> <<TestCase(Obj, Str("[1, 1, 3, 4, 5]")), TestCase(Obj, Str("[1, 2, 3, 4, 5]")), TestCase(Obj, Str("[]"))>>]>>]>>],
     [key |-> "Java", value |-> <<
       [key |-> "Beginner", value |-> <<
          [title |-> "Simple Calculator",
           description |-> "Write a method that adds two integers and returns the result.",
           starterCode |-> "public class Calculator {\n    public static int add(int a, int b) {\n        // Your code here\n        return 0;\n    }\n}",
           solution |-> "public class Calculator {\n    public static int add(int a, int b) {\n        return a + b;\n    }\n}",
           testCases |-> <<TestCase(Obj, Str("8")), TestCase(Obj, Str("5")), TestCase(Obj, Str("0"))>>]>>],
       [key |-> "Intermediate", value |-> <<
          [title |-> "Array Maximum",
           description |-> "Write a method that finds the maximum value in an integer array.",
           starterCode |-> "public class ArrayUtils {\n    public static int findMax(int[] numbers) {\n        // Your code here\n        return 0;\n    }\n}",
           solution |-> "public class ArrayUtils {\n    public static int findMax(int[] numbers) {\n        if (numbers.length == 0) return Integer.MIN_VALUE;\n        int max = numbers[0];\n        for (int i = 1; i < numbers.length; i++) {\n            if (numbers[i] > max) max = numbers[i];\n        }\n        return max;\n    }\n}",
           testCases |-> <<TestCase(Obj, Str("9")), TestCase(Obj, Str("-1")), TestCase(Obj, Str("42"))>>]>>]>>]
    >>

MAX_RECENT_CHALLENGES == 5

\* the ttl passed to fallbackCache.set: 10 minutes = 60 ticks
FallbackTTL == 60

\* String.prototype.toLowerCase on the strings that occur in the model
ToLower(s) ==
    CASE s = "JavaScript" -> "javascript"
      [] s = "Python" -> "python"
      [] s = "PYTHON" -> "python"
      [] s = "Java" -> "java"
      [] s = "Beginner" -> "beginner"
      [] s = "BEGINNER" -> "beginner"
      [] s = "Intermediate" -> "intermediate"
      [] s = "INTERMEDIATE" -> "intermediate"
      [] s = "Hard" -> "hard"
      [] s = "Advanced" -> "advanced"
      [] s = "Expert" -> "expert"
      [] s = "Klingon" -> "klingon"
      [] OTHER -> s

\* a filters argument: null, or an object with optional keys
NullFilters == [k |-> "null", language |-> Absent, difficulty |-> Absent, level |-> Absent]
Filters(l, d, v) == [k |-> "obj", language |-> l, difficulty |-> d, level |-> v]

\* an object is the sequence of its [key, value] entries in insertion order
ObjectKeys(o) == [i \in 1..Len(o) |-> o[i].key]

\* o[k] for a key that o has
Get(o, k) == o[CHOOSE i \in 1..Len(o) : o[i].key = k].value

\* keys.find(x => x.toLowerCase() === v.toLowerCase()) || dflt
FindLower(keys, v, dflt) ==
    IF \E i \in 1..Len(keys) : ToLower(keys[i]) = ToLower(v)
    THEN keys[CHOOSE i \in 1..Len(keys) :
                 /\ ToLower(keys[i]) = ToLower(v)
                 /\ \A j \in 1..(i - 1) : ToLower(keys[j]) # ToLower(v)]
    ELSE dflt

\* getAvailableDifficulties: Object.keys, in insertion order
getAvailableDifficulties(language) == ObjectKeys(Get(FALLBACK_CHALLENGES, language))

\* challenges.filter(challenge => !recentChallenges.some(...))
RECURSIVE NotRecent(_, _)
NotRecent(q, recent) ==
    IF q = <<>> THEN <<>>
    ELSE IF \E i \in 1..Len(recent) : recent[i] = Head(q).title
    THEN NotRecent(Tail(q), recent)
    ELSE <<Head(q)>> \o NotRecent(Tail(q), recent)

FallbackMetadata(source, reason, hit) ==
    [t |-> "obj", source |-> source, parsingMethod |-> "", fallbackReason |-> reason,
     cacheHit |-> hit, generationAttempts |-> -1, consecutiveFailures |-> -1]

\* {...selectedChallenge, language, difficulty, metadata}
TemplateResult(tpl, language, difficulty, meta) ==
    [k |-> "obj", title |-> Str(tpl.title), language |-> Str(language),
     difficulty |-> Str(difficulty), description |-> Str(tpl.description),
     starterCode |-> Str(tpl.starterCode), solution |-> Str(tpl.solution),
     testCases |-> CasesArray(tpl.testCases), metadata |-> meta]

\* InMemoryCache.get: the stored value unless the entry has expired
CacheGet(cache, key, t) ==
    IF key \in DOMAIN cache /\ ~(t - cache[key].timestamp > cache[key].ttl)
    THEN [hit |-> TRUE, value |-> cache[key].value, cache |-> cache]
    ELSE [hit |-> FALSE, value |-> EmptyData("obj"),
          cache |-> [x \in DOMAIN cache \ {key} |-> cache[x]]]

\* InMemoryCache.set, without memory pressure: the serialized entries stay
\* below compressionThreshold and the cache below maxSize
CacheSet(cache, key, value, ttl, t) ==
    [x \in DOMAIN cache \cup {key} |->
        IF x = key THEN [value |-> value, timestamp |-> t, ttl |-> ttl] ELSE cache[x]]

\* an outcome of getFallbackChallenge: the challenge, or that a TypeError was
\* thrown, with the recent list and the cache afterwards
Returned(challenge, recent, cache) ==
    [thrown |-> FALSE, challenge |-> challenge, recent |-> recent, cache |-> cache]

Thrown(recent, cache) ==
    [thrown |-> TRUE, challenge |-> EmptyData("obj"), recent |-> recent, cache |-> cache]

\* recentChallenges.push(...), then shift() beyond MAX_RECENT_CHALLENGES
PushRecent(recent, title) ==
    IF Len(recent) + 1 > MAX_RECENT_CHALLENGES
    THEN Tail(Append(recent, title)) ELSE Append(recent, title)

\* the result for the selected challenge is cached and returned
serveSelected(result, recent, cacheKey, cache, t) ==
    Returned(result, PushRecent(recent, result.title.v),
             CacheSet(cache, cacheKey, result, FallbackTTL, t))

\* Math.random selects any of availableChallenges
selectChallenge(language, difficulty, availableChallenges, recent, cacheKey, cache, t) ==
    { serveSelected(TemplateResult(availableChallenges[i], language, difficulty,
                        FallbackMetadata("fallback", "AI generation failed", "false")),
                    recent, cacheKey, cache, t) : i \in 1..Len(availableChallenges) }

\* the recent filter, applied to a bucket of more than MAX_RECENT_CHALLENGES;
\* the recent list is reset when the filter leaves nothing
filterRecent(language, difficulty, challenges, fresh, recent, cacheKey, cache, t) ==
    IF Len(challenges) > MAX_RECENT_CHALLENGES /\ Len(fresh) > 0
    THEN selectChallenge(language, difficulty, fresh, recent, cacheKey, cache, t)
    ELSE selectChallenge(language, difficulty, challenges,
                         IF Len(challenges) > MAX_RECENT_CHALLENGES THEN <<>> ELSE recent,
                         cacheKey, cache, t)

\* after a cache miss: the bucket, or JavaScript.Beginner when it is empty
fromTable(language, difficulty, challenges, fallbackChallenges, recent, cacheKey, cache, t) ==
    IF Len(challenges) = 0
    THEN { Returned(TemplateResult(fallbackChallenges[i], "JavaScript", "Beginner",
                        FallbackMetadata("fallback",
                            "No challenges available for requested language/difficulty",
                            "absent")),
                    recent, cache) : i \in 1..Len(fallbackChallenges) }
    ELSE filterRecent(language, difficulty, challenges, NotRecent(challenges, recent),
                      recent, cacheKey, cache, t)

\* the cached challenge when fallbackCache.get finds one
fromCache(language, difficulty, got, recent, cacheKey, t) ==
    IF got.hit
    THEN {Returned([got.value EXCEPT !.metadata.source = "fallback_cached",
                                     !.metadata.cacheHit = "true"],
                   recent, got.cache)}
    ELSE fromTable(language, difficulty,
                   Get(Get(FALLBACK_CHALLENGES, language), difficulty),
                   Get(Get(FALLBACK_CHALLENGES, "JavaScript"), "Beginner"),
                   recent, cacheKey, got.cache, t)

withCacheKey(language, difficulty, cacheKey, recent, cache, t) ==
    fromCache(language, difficulty, CacheGet(cache, cacheKey, t), recent, cacheKey, t)

\* difficulty.toLowerCase() throws a TypeError unless difficulty is a string
normalizeDifficulty(language, availableDifficulties, difficulty, recent, cache, t) ==
    IF difficulty.t # "str" THEN {Thrown(recent, cache)}
    ELSE withCacheKey(language,
                      FindLower(availableDifficulties, difficulty.v,
                                IF Len(availableDifficulties) > 0
                                THEN availableDifficulties[1] ELSE "Beginner"),
                      language \o "-" \o
                      FindLower(availableDifficulties, difficulty.v,
                                IF Len(availableDifficulties) > 0
                                THEN availableDifficulties[1] ELSE "Beginner"),
                      recent, cache, t)

withLanguage(normalizedLanguage, difficulty, recent, cache, t) ==
    normalizeDifficulty(normalizedLanguage, getAvailableDifficulties(normalizedLanguage),
                        difficulty, recent, cache, t)

\* language.toLowerCase() throws a TypeError unless language is a string
normalizeLanguage(language, difficulty, recent, cache, t) ==
    IF language.t # "str" THEN {Thrown(recent, cache)}
    ELSE withLanguage(FindLower(ObjectKeys(FALLBACK_CHALLENGES), language.v, "JavaScript"),
                      difficulty, recent, cache, t)

\* mutant: destructuring without defaults
OrDefault_none(x, s) == x

\* a destructuring default: it replaces undefined only
OrDefault(x, s) == IF x.t = "absent" THEN Str(s) ELSE x

\* getFallbackChallenge(filters): the outcomes Math.random can select;
\* destructuring null throws a TypeError
getFallbackChallenge(filters, recent, cache, t) ==
    IF filters.k = "null" THEN {Thrown(recent, cache)}
    ELSE normalizeLanguage(OrDefault(filters.language, "JavaScript"),
                           OrDefault(filters.difficulty, "Intermediate"),
                           recent, cache, t)

\* validateFallbackChallenge(challenge).isValid
validateFallbackChallenge(challenge) ==
    /\ Truthy(challenge.title) /\ Truthy(challenge.description)
    /\ Truthy(challenge.starterCode) /\ Truthy(challenge.solution)
    /\ challenge.testCases.t = "arr"
    /\ \A i \in 1..Len(challenge.testCases.items) :
         LET tc == challenge.testCases.items[i] IN
         /\ Truthy(tc.input) /\ tc.input.t \in {"obj", "arr"}
         /\ tc.expected.t \notin {"absent", "null"}

\* formatFallbackChallenge: the formatted challenge, or thrown
formatFallbackChallenge(challenge) ==
    IF ~validateFallbackChallenge(challenge)
    THEN [thrown |-> TRUE, challenge |-> challenge]
    ELSE [thrown |-> FALSE,
          challenge |->
            [challenge EXCEPT
               !.testCases = CasesArray([i \in 1..Len(challenge.testCases.items) |->
                                TestCase(challenge.testCases.items[i].input,
                                         String(challenge.testCases.items[i].expected))]),
               !.metadata.parsingMethod = "fallback",
               !.metadata.generationAttempts = 0]]

(***************************************************************************)
(* enhancedGeminiService.js                                                *)
(***************************************************************************)
fallbackThreshold == 2
enableFallback == TRUE
Models == <<"gemini-2.5-pro", "gemini-2.5-flash">>

\* the filters arguments callers pass
FilterValues ==
    { NullFilters,
      Filters(Str("javascript"), Str("intermediate"), Absent),
      Filters(Absent, Absent, Str("Advanced")),
      Filters(Num("5"), Str("Hard"), Absent) }

\* generatePrompt(filters): throws a TypeError on null, else moves a level
\* key to difficulty in the caller's object
generatePrompt(filters) ==
    IF filters.k = "null" THEN [thrown |-> TRUE, filters |-> filters]
    ELSE IF Truthy(filters.level) /\ ~Truthy(filters.difficulty)
    THEN [thrown |-> FALSE,
          filters |-> [filters EXCEPT !.difficulty = filters.level, !.level = Absent]]
    ELSE [thrown |-> FALSE, filters |-> filters]

\* mutant: the expected values of the emergency challenge are numbers
EmergencyCases_numbers ==
    <<TestCase(Obj, Num("5")), TestCase(Obj, Num("0")), TestCase(Obj, Num("0"))>>

\* the testCases literal of getEmergencyFallback
EmergencyCases ==
    <<TestCase(Obj, Str("5")), TestCase(Obj, Str("0")), TestCase(Obj, Str("0"))>>

\* getEmergencyFallback(filters): throws a TypeError on null
getEmergencyFallback(filters) ==
    IF filters.k = "null" THEN [thrown |-> TRUE, challenge |-> EmptyData("obj")]
    ELSE [thrown |-> FALSE,
          challenge |->
            [k |-> "obj", title |-> Str("Simple Addition"),
             language |-> IF Truthy(filters.language) THEN filters.language
                          ELSE Str("JavaScript"),
             difficulty |-> IF Truthy(filters.difficulty) THEN filters.difficulty
                            ELSE Str("Beginner"),
             description |-> Str("Write a function that adds two numbers together."),
             starterCode |-> Str("function add(a, b) {\n  // Your code here\n}"),
             solution |-> Str("function add(a, b) {\n  return a + b;\n}"),
             testCases |-> CasesArray(EmergencyCases),
             metadata |-> [t |-> "obj", source |-> "emergency_fallback",
                           parsingMethod |-> "emergency",
                           fallbackReason |-> "Fallback system failed",
                           cacheHit |-> "absent", generationAttempts |-> 0,
                           consecutiveFailures |-> -1]]]

\* getFallbackWithMetadata(filters, reason) with this.consecutiveFailures = cf:
\* the possible outcomes
getFallbackWithMetadata(filters, reason, cf, recent, cache, t) ==
    LET f(g) == formatFallbackChallenge(g.challenge)
        e == getEmergencyFallback(filters)
    IN { IF ~g.thrown /\ ~f(g).thrown
         THEN [thrown |-> FALSE,
               challenge |-> [f(g).challenge EXCEPT !.metadata.fallbackReason = reason,
                                                    !.metadata.consecutiveFailures = cf],
               recent |-> g.recent, cache |-> g.cache]
         ELSE [thrown |-> e.thrown, challenge |-> e.challenge,
               recent |-> g.recent, cache |-> g.cache]
         : g \in getFallbackChallenge(filters, recent, cache, t) }

\* what a model sends back: the length of the text in KiB and what the
\* parsing strategies of processResponse make of it
ModelText(length, parsed, data) == [length |-> length, parsed |-> parsed, data |-> data]

maxResponseSize == 1024

GoodData ==
    [EmptyData("obj") EXCEPT
       !.title = Str("Two Sum"), !.language = Str("Python"), !.difficulty = Str("Advanced"),
       !.description = Str("Return the indices of the two numbers that add up to the target."),
       !.starterCode = Str("def two_sum(nums, target):\n    pass"),
       !.solution = Str("def two_sum(nums, target):\n    return [0, 1]"),
       !.testCases = CasesArray(<<TestCase(Obj, Arr("0,1", 2))>>)]

\* every field of the wrong type, test cases sent as a string, and a
\* metadata key of the model's own
BadData ==
    [EmptyData("obj") EXCEPT
       !.title = Num("42"), !.language = Null, !.difficulty = Str("Hard"),
       !.description = Str("short"), !.starterCode = Obj, !.solution = Arr("", 0),
       !.testCases = CasesString("arr", <<NonObjectCase("null"), TestCase(Absent, Null),
                                          NonObjectCase("num")>>),
       !.metadata = [NoMetadata EXCEPT !.t = "obj", !.source = "model"]]

ModelTexts ==
    { ModelText(1024, TRUE, GoodData),
      ModelText(1025, TRUE, GoodData),
      ModelText(1, FALSE, EmptyData("obj")),
      ModelText(1, TRUE, BadData),
      ModelText(1, TRUE, EmptyData("obj")),
      ModelText(1, TRUE, EmptyData("str")) }

\* the messages the API call is made to fail with: retried, not retried, and
\* the empty message of a response without text
ModelErrors == { {"timeout"}, {"validation"}, {} }

\* mutant: the parsed data is passed on without recovery or validation
processResponse_ungated(text) ==
    IF ~text.parsed
    THEN [success |-> FALSE, stage |-> "parsing", data |-> EmptyData("obj")]
    ELSE [success |-> TRUE, stage |-> "", data |-> text.data]

\* the last stage of processResponse: the recovered data when it validates
finalValidation(rawValid, recoveredData, recoveredValid) ==
    IF ~rawValid /\ ~recoveredValid
    THEN [success |-> FALSE, stage |-> "schema-validation", data |-> EmptyData("obj")]
    ELSE IF ~recoveredValid
    THEN [success |-> FALSE, stage |-> "final-validation", data |-> EmptyData("obj")]
    ELSE [success |-> TRUE, stage |-> "", data |-> recoveredData]

\* schema validation of the parsed data and of what normalizeTypes and
\* applyDefaults make of it
schemaValidation(rawValid, recoveredData) ==
    finalValidation(rawValid, recoveredData, validate(recoveredData).isValid)

\* processResponse(rawResponse), from the parse result on
processResponse(text) ==
    IF ~text.parsed
    THEN [success |-> FALSE, stage |-> "parsing", data |-> EmptyData("obj")]
    ELSE schemaValidation(validate(text.data).isValid,
                          applyDefaults(normalizeTypes(text.data)))

\* the error property of a failed processResponse result, by its stage
StageError(stage) ==
    CASE stage = "parsing" -> "JSON parsing failed"
      [] stage = "schema-validation" -> "Schema validation failed"
      [] stage = "final-validation" -> "Final validation failed"
      [] OTHER -> "Invalid response format"

\* if (!parseResult.success) throw new Error(`Parsing failed: ${parseResult.error}`);
\* return parseResult.data
parsedData(parseResult) ==
    IF ~parseResult.success
    THEN [thrown |-> TRUE, error |-> "Parsing failed: " \o StageError(parseResult.stage),
          data |-> EmptyData("obj")]
    ELSE [thrown |-> FALSE, error |-> "", data |-> parseResult.data]

\* mutant: no limit on the size of the response
processApiResponse_unlimited(text) == parsedData(processResponse(text))

\* processApiResponse(apiResponse): the parsed data, or the error thrown
processApiResponse(text) ==
    IF text.length > maxResponseSize
    THEN [thrown |-> TRUE, error |-> "Response too large", data |-> EmptyData("obj")]
    ELSE parsedData(processResponse(text))

AiMetadata ==
    [t |-> "obj", source |-> "ai", parsingMethod |-> "enhanced_pipeline",
     fallbackReason |-> "", cacheHit |-> "absent", generationAttempts |-> 1,
     consecutiveFailures |-> -1]

\* normalizeQuestionData(data): throws a TypeError on a null test case
normalizeQuestionData(data) ==
    LET tc0 == data.testCases
        tc1 == IF tc0.t = "str"
               THEN CASE tc0.json = "arr" -> CasesArray(tc0.items)
                      [] tc0.json = "other" -> CasesOther("num")
                      [] OTHER -> CasesArray(<<>>)
               ELSE tc0
        tc2 == IF tc1.t = "arr"
               THEN CasesArray([i \in 1..Len(tc1.items) |->
                       TestCase(IF Truthy(tc1.items[i].input) THEN tc1.items[i].input ELSE Obj,
                                IF tc1.items[i].expected.t \in {"absent", "null"}
                                THEN Str("") ELSE String(tc1.items[i].expected))])
               ELSE CasesArray(<<>>)
    IN IF tc1.t = "arr" /\ \E i \in 1..Len(tc1.items) : tc1.items[i].t = "null"
       THEN [thrown |-> TRUE, data |-> data]
       ELSE [thrown |-> FALSE,
             data |-> [data EXCEPT !.testCases = tc2,
                                   !.metadata = IF data.metadata.t \in {"absent", "null"}
                                                THEN AiMetadata ELSE data.metadata]]

\* a generateQuestionWithGemini call: where it is, its filters object as
\* generatePrompt leaves it and as it was given, the model of
\* generateWithModels' loop and the retry loop for that model
IdleReq ==
    [pc |-> "idle", filters |-> NullFilters, given |-> NullFilters, model |-> 0,
     call |-> IdleCall]

\* mutant: every model gets three attempts
NewCall_three == [IdleCall EXCEPT !.attempt = 1, !.maxAttempts = 3]

\* createRetryWrapper(..., { maxAttempts: 2, ... }) for every model
NewCall == [IdleCall EXCEPT !.attempt = 1, !.maxAttempts = 2]

NoResult == EmptyData("obj")

\* callGeminiModel rethrows as `Model ${modelName} failed: ${error.message}`;
\* the prefix adds no classifier keyword for either model name
ModelFailedPrefix == {}
callGeminiModelError(e) == ModelFailedPrefix \cup e

RECURSIVE tryModels(_, _, _), afterRetry(_, _, _, _)
\* generateWithModels after retryWithBackoff has checked the breaker or caught
\* an error for the current model: await the invocation, sleep, or go on to
\* the next model; "failed" when no model is left (throw lastError)
afterRetry(cb, req, call, t) ==
    CASE call.pc = "inflight" ->
           [cb |-> cb, req |-> [req EXCEPT !.pc = "inflight", !.call = call]]
      [] call.pc = "sleep" ->
           [cb |-> cb, req |-> [req EXCEPT !.pc = "sleep", !.call = call]]
      [] OTHER ->
           IF req.model < Len(Models)
           THEN tryModels(cb, [req EXCEPT !.model = req.model + 1, !.call = NewCall], t)
           ELSE [cb |-> cb, req |-> [req EXCEPT !.pc = "failed", !.call = call]]

\* generateWithModels from the top of the retry loop for req.model
tryModels(cb, req, t) ==
    LET r == retryAttempt(cb, req.call, t) IN afterRetry(r.cb, req, r.call, t)

\* the retry loop of a request without the history counters of a call slot
Bare(call) == [call EXCEPT !.invoked = 0, !.rejected = 0]

\* history: what a step of a request did.  branch is the part of
\* generateQuestionWithGemini that ended the request ("preflight", "ai",
\* "catch") or "none"; outcome is "pending", "returned" with the Challenge in
\* result, or "rejected"; before is the counter ahead of the step; length is
\* the size of the text a model returned in the step, 0 without one; filters
\* is the caller's filters argument as it was passed, for a request that a
\* fallback ended
Did(op, branch, outcome, result) ==
    [op |-> op, branch |-> branch, outcome |-> outcome,
     before |-> consecutiveFailures, result |-> result, length |-> 0,
     filters |-> NullFilters]

\* mutant: one failure is counted for every model the request tried
countFailure_perModel(cf, req) == cf + req.model

\* this.consecutiveFailures++ in the catch block
countFailure(cf, req) == cf + 1

\* mutant: a success leaves the counter as it is
resetFailures_keep(cf) == cf

\* this.consecutiveFailures = 0 on success
resetFailures(cf) == 0

\* the catch block of generateQuestionWithGemini: count the failure, then
\* resolve to the fallback or let its exception reach the caller
Catch(r, op, length, req, error, recent, cache) ==
    \E fb \in getFallbackWithMetadata(req.filters, error,
                                      countFailure(consecutiveFailures, req),
                                      recent, cache, now) :
       /\ consecutiveFailures' = countFailure(consecutiveFailures, req)
       /\ recentChallenges' = fb.recent
       /\ fallbackCache' = fb.cache
       /\ requests' = [requests EXCEPT ![r] = IdleReq]
       /\ event' = [Did(op, "catch", IF fb.thrown THEN "rejected" ELSE "returned",
                        fb.challenge) EXCEPT !.length = length, !.filters = req.given]

\* generateWithModels has reached an await, or has thrown into the catch block
Proceed(r, op, cb, req) ==
    /\ circuitBreaker' = cb
    /\ openedAt' = OpenedAt(circuitBreaker, cb, now)
    /\ sinceHalfOpen' = SinceHalfOpen(circuitBreaker, cb, FALSE)
    /\ IF req.pc = "failed"
       THEN Catch(r, op, 0, req, "All models failed", recentChallenges, fallbackCache)
       ELSE /\ requests' = [requests EXCEPT ![r] = [req EXCEPT !.call = Bare(req.call)]]
            /\ event' = Did(op, "none", "pending", NoResult)
            /\ UNCHANGED <<consecutiveFailures, recentChallenges, fallbackCache>>
    /\ UNCHANGED <<now, calls>>

\* the pre-flight branch: the fallback is returned from inside the try block
PreFlight(r, req) ==
    \E fb \in getFallbackWithMetadata(req.filters, "consecutive_failures",
                                      consecutiveFailures,
                                      recentChallenges, fallbackCache, now) :
       IF fb.thrown
       THEN Catch(r, "request", 0, req, "TypeError", fb.recent, fb.cache)
       ELSE /\ recentChallenges' = fb.recent
            /\ fallbackCache' = fb.cache
            /\ event' = [Did("request", "preflight", "returned", fb.challenge)
                             EXCEPT !.filters = req.given]
            /\ UNCHANGED <<consecutiveFailures, requests>>

\* a caller begins generateQuestionWithGemini(f); it takes the lowest idle slot
StartRequest(r, f) ==
    /\ requests[r].pc = "idle"
    /\ \A q \in ReqIds : q < r => requests[q].pc # "idle"
    /\ consecutiveFailures < MaxConsecutive
    /\ circuitBreaker.failureCount < MaxFailures
    /\ \E req \in {[IdleReq EXCEPT !.pc = "started", !.filters = f, !.given = f]},
          gp \in {generatePrompt(f)} :
         IF consecutiveFailures >= fallbackThreshold /\ enableFallback
         THEN /\ PreFlight(r, req)
              /\ UNCHANGED <<now, circuitBreaker, calls, openedAt, sinceHalfOpen>>
         ELSE IF gp.thrown
         THEN /\ Catch(r, "request", 0, req, "TypeError", recentChallenges, fallbackCache)
              /\ UNCHANGED <<now, circuitBreaker, calls, openedAt, sinceHalfOpen>>
         ELSE \E g \in {tryModels(circuitBreaker,
                                  [req EXCEPT !.filters = gp.filters, !.model = 1,
                                              !.call = NewCall], now)} :
                 Proceed(r, "request", g.cb, g.req)
    /\ UNCHANGED storeVars

\* the backoff sleep of a request's retry loop ends
WakeRequest(r) ==
    /\ requests[r].pc = "sleep"
    /\ \E g \in {tryModels(circuitBreaker,
                            [requests[r] EXCEPT !.call.attempt = requests[r].call.attempt + 1,
                                                !.call.wakeBy = 0], now)} :
         Proceed(r, "wake", g.cb, g.req)
    /\ UNCHANGED storeVars

\* the awaited callGeminiModel rejects: the API call failed with message e, or
\* the response had no text (e = {})
ModelFails(r, e) ==
    /\ requests[r].pc = "inflight"
    /\ \E rc \in {retryCatch(circuitBreaker, requests[r].call,
                              callGeminiModelError(e), now)} :
         \E g \in {afterRetry(rc.cb, requests[r], rc.call, now)} :
            Proceed(r, "modelFails", g.cb, g.req)
    /\ UNCHANGED storeVars

\* the awaited callGeminiModel resolves with text: recordSuccess, then the rest
\* of the try block of generateQuestionWithGemini
ModelReturns(r, text) ==
    /\ requests[r].pc = "inflight"
    /\ circuitBreaker' = recordSuccess(circuitBreaker)
    /\ sinceHalfOpen' = SinceHalfOpen(circuitBreaker, recordSuccess(circuitBreaker), TRUE)
    /\ \E parsed \in {processApiResponse(text)} :
         \E normalized \in {normalizeQuestionData(parsed.data)} :
            IF parsed.thrown \/ normalized.thrown
            THEN Catch(r, "modelReturns", text.length, requests[r],
                       IF parsed.thrown THEN parsed.error ELSE "TypeError",
                       recentChallenges, fallbackCache)
            ELSE /\ consecutiveFailures' = resetFailures(consecutiveFailures)
                 /\ requests' = [requests EXCEPT ![r] = IdleReq]
                 /\ event' = [Did("modelReturns", "ai", "returned", normalized.data)
                                  EXCEPT !.length = text.length]
                 /\ UNCHANGED <<recentChallenges, fallbackCache>>
    /\ UNCHANGED <<now, calls, openedAt>>
    /\ UNCHANGED storeVars

\* EnhancedGeminiService.reset()
reset ==
    /\ consecutiveFailures > 0
    /\ consecutiveFailures' = 0
    /\ event' = Did("resetService", "none", "none", NoResult)
    /\ UNCHANGED <<now, circuitBreaker, calls, openedAt, sinceHalfOpen,
                   requests, recentChallenges, fallbackCache>>
    /\ UNCHANGED storeVars

\* the clock advances; a sleeping request wakes before its delay is exceeded
TickOrch ==
    /\ now < MaxClock
    /\ \A r \in ReqIds : requests[r].pc = "sleep" => requests[r].call.wakeBy > now
    /\ now' = now + 1
    /\ event' = Did("tick", "none", "none", NoResult)
    /\ UNCHANGED <<circuitBreaker, calls, openedAt, sinceHalfOpen, orchVars>>
    /\ UNCHANGED storeVars

(***************************************************************************)
(* Texts.  A text is the sequence of its characters.  JSON.parse is the    *)
(* ECMA-404 grammar; a parsed value is JV(t, s, kids): t is "obj", "arr",  *)
(* "str", "num", "true", "false" or "null", s the characters of a string   *)
(* or number, kids the elements of an array or the [key, value] entries of *)
(* an object in insertion order.                                           *)
(***************************************************************************)
JV(t, s, kids) == [t |-> t, s |-> s, kids |-> kids]

\* a parse step: the value and the position after it, or a SyntaxError
Parsed(value, pos) == [ok |-> TRUE, value |-> value, pos |-> pos]
SyntaxError == [ok |-> FALSE, value |-> JV("null", <<>>, <<>>), pos |-> 0]

JsonWhitespace == {" ", "\t", "\n", "\r"}
Digits == {"0", "1", "2", "3", "4", "5", "6", "7", "8", "9"}
HexDigits == Digits \cup {"a", "b", "c", "d", "e", "f", "A", "B", "C", "D", "E", "F"}

\* the character at position i, "" beyond the end
At(text, i) == IF i >= 1 /\ i <= Len(text) THEN text[i] ELSE ""

\* the first position from i on whose character is not in set
Skip(text, i, set) ==
    IF \A j \in i..Len(text) : text[j] \in set
    THEN (IF i > Len(text) THEN i ELSE Len(text) + 1)
    ELSE CHOOSE j \in i..Len(text) : text[j] \notin set /\ \A k \in i..(j - 1) : text[k] \in set

\* text.slice(from - 1, to) in 1-based positions
Slice(text, from, to) == SubSeq(text, from, to)

\* A loop over the characters of a text is evaluated StepsPerRun iterations
\* at a time.  Its state st holds the position st.i of the next iteration
\* and the loop's variables; Step is one iteration of the loop of that name.
RECURSIVE Step(_, _, _), Steps(_, _, _, _), Run(_, _, _)
Steps(loop, text, st, k) ==
    IF k = 0 \/ st.i > Len(text) THEN st
    ELSE Steps(loop, text, Step(loop, text, st), k - 1)

Run(loop, text, st) ==
    IF st.i > Len(text) THEN st ELSE Run(loop, text, Steps(loop, text, st, StepsPerRun))

\* a loop without parameters, and text.replace(/pattern/g, replacement) for
\* a pattern without operators
Loop(name) == [name |-> name, pattern |-> <<>>, replacement |-> <<>>]
Literal(pattern, replacement) ==
    [name |-> "ReplaceLiteral", pattern |-> pattern, replacement |-> replacement]

\* text.replace(regex, ...) with flag g: the match is sought from position
\* st.i on and st.out is the result so far
Replacing == [i |-> 1, out |-> <<>>]

\* a match up to position next - 1 is replaced by out
Emit(st, out, next) == [i |-> next, out |-> st.out \o out]

\* no match begins at st.i
Keep(text, st) == [i |-> st.i + 1, out |-> Append(st.out, text[st.i])]

\* the character an escape \c stands for in a JSON string, "" for none;
\* "<BS>" is the backspace character
Unescaped(c) ==
    CASE c = "\"" -> "\""
      [] c = "\\" -> "\\"
      [] c = "/" -> "/"
      [] c = "b" -> "<BS>"
      [] c = "f" -> "\f"
      [] c = "n" -> "\n"
      [] c = "r" -> "\r"
      [] c = "t" -> "\t"
      [] OTHER -> ""

\* a JSON string from the character after its opening quote on; a \uXXXX
\* escape is kept as its six characters
RECURSIVE StringBody(_, _, _)
StringBody(text, i, acc) ==
    IF i > Len(text) THEN SyntaxError
    ELSE IF text[i] = "\"" THEN Parsed(JV("str", acc, <<>>), i + 1)
    ELSE IF text[i] = "\\"
    THEN IF Unescaped(At(text, i + 1)) # ""
         THEN StringBody(text, i + 2, Append(acc, Unescaped(At(text, i + 1))))
         ELSE IF At(text, i + 1) = "u" /\ \A k \in 2..5 : At(text, i + k) \in HexDigits
         THEN StringBody(text, i + 6, acc \o Slice(text, i, i + 5))
         ELSE SyntaxError
    ELSE IF text[i] \in {"\n", "\r", "\t", "\f"} THEN SyntaxError
    ELSE StringBody(text, i + 1, Append(acc, text[i]))

\* the end of the exponent part of a number whose fraction ends before i
ExponentEnd(text, i) ==
    IF At(text, i) \in {"e", "E"}
    THEN IF At(text, i + 1) \in {"+", "-"}
         THEN IF At(text, i + 2) \in Digits THEN Skip(text, i + 2, Digits) ELSE 0
         ELSE IF At(text, i + 1) \in Digits THEN Skip(text, i + 1, Digits) ELSE 0
    ELSE i

\* the end of the fraction and exponent of a number whose integer part ends
\* before i; 0 for a SyntaxError
FractionEnd(text, i) ==
    IF At(text, i) = "."
    THEN IF At(text, i + 1) \in Digits
         THEN ExponentEnd(text, Skip(text, i + 1, Digits)) ELSE 0
    ELSE ExponentEnd(text, i)

\* the position after the number whose digits begin at i; 0 for a SyntaxError
NumberEnd(text, i) ==
    IF At(text, i) = "0" THEN FractionEnd(text, i + 1)
    ELSE IF At(text, i) \in Digits THEN FractionEnd(text, Skip(text, i, Digits))
    ELSE 0

NumberFrom(text, i, end) ==
    IF end = 0 THEN SyntaxError ELSE Parsed(JV("num", Slice(text, i, end - 1), <<>>), end)

ParseNumber(text, i) ==
    NumberFrom(text, i, NumberEnd(text, IF At(text, i) = "-" THEN i + 1 ELSE i))

\* one of the words true, false, null at position i
ParseWord(text, i, word, t) ==
    IF Len(text) >= i + Len(word) - 1 /\ Slice(text, i, i + Len(word) - 1) = word
    THEN Parsed(JV(t, <<>>, <<>>), i + Len(word))
    ELSE SyntaxError

\* obj[key] = value: a key that is there keeps its place
RECURSIVE SetKey(_, _, _)
SetKey(entries, key, value) ==
    IF entries = <<>> THEN <<[key |-> key, value |-> value]>>
    ELSE IF Head(entries).key = key
    THEN <<[key |-> key, value |-> value]>> \o Tail(entries)
    ELSE <<Head(entries)>> \o SetKey(Tail(entries), key, value)

RECURSIVE ParseValue(_, _), Elements(_, _, _), AfterElement(_, _, _),
          Members(_, _, _), AfterKey(_, _, _), AfterMember(_, _, _, _)

\* the value that begins at position i
ParseValue(text, i) ==
    CASE At(text, i) = "{" ->
           IF At(text, Skip(text, i + 1, JsonWhitespace)) = "}"
           THEN Parsed(JV("obj", <<>>, <<>>), Skip(text, i + 1, JsonWhitespace) + 1)
           ELSE Members(text, Skip(text, i + 1, JsonWhitespace), <<>>)
      [] At(text, i) = "[" ->
           IF At(text, Skip(text, i + 1, JsonWhitespace)) = "]"
           THEN Parsed(JV("arr", <<>>, <<>>), Skip(text, i + 1, JsonWhitespace) + 1)
           ELSE Elements(text, Skip(text, i + 1, JsonWhitespace), <<>>)
      [] At(text, i) = "\"" -> StringBody(text, i + 1, <<>>)
      [] At(text, i) \in Digits \cup {"-"} -> ParseNumber(text, i)
      [] At(text, i) = "t" -> ParseWord(text, i, <<"t", "r", "u", "e">>, "true")
      [] At(text, i) = "f" -> ParseWord(text, i, <<"f", "a", "l", "s", "e">>, "false")
      [] At(text, i) = "n" -> ParseWord(text, i, <<"n", "u", "l", "l">>, "null")
      [] OTHER -> SyntaxError

\* the elements of an array, the next one beginning at i
Elements(text, i, acc) == AfterElement(text, ParseValue(text, i), acc)

AfterElement(text, v, acc) ==
    IF ~v.ok THEN SyntaxError
    ELSE IF At(text, Skip(text, v.pos, JsonWhitespace)) = ","
    THEN Elements(text, Skip(text, Skip(text, v.pos, JsonWhitespace) + 1, JsonWhitespace),
                  Append(acc, v.value))
    ELSE IF At(text, Skip(text, v.pos, JsonWhitespace)) = "]"
    THEN Parsed(JV("arr", <<>>, Append(acc, v.value)),
                Skip(text, v.pos, JsonWhitespace) + 1)
    ELSE SyntaxError

\* the members of an object, the next key beginning at i
Members(text, i, acc) ==
    IF At(text, i) = "\"" THEN AfterKey(text, StringBody(text, i + 1, <<>>), acc)
    ELSE SyntaxError

AfterKey(text, k, acc) ==
    IF ~k.ok THEN SyntaxError
    ELSE IF At(text, Skip(text, k.pos, JsonWhitespace)) = ":"
    THEN AfterMember(text, k.value.s,
                     ParseValue(text, Skip(text, Skip(text, k.pos, JsonWhitespace) + 1,
                                           JsonWhitespace)),
                     acc)
    ELSE SyntaxError

AfterMember(text, key, v, acc) ==
    IF ~v.ok THEN SyntaxError
    ELSE IF At(text, Skip(text, v.pos, JsonWhitespace)) = ","
    THEN Members(text, Skip(text, Skip(text, v.pos, JsonWhitespace) + 1, JsonWhitespace),
                 SetKey(acc, key, v.value))
    ELSE IF At(text, Skip(text, v.pos, JsonWhitespace)) = "}"
    THEN Parsed(JV("obj", <<>>, SetKey(acc, key, v.value)),
                Skip(text, v.pos, JsonWhitespace) + 1)
    ELSE SyntaxError

\* the value is the whole text
WholeText(text, v) ==
    IF v.ok /\ Skip(text, v.pos, JsonWhitespace) = Len(text) + 1 THEN v ELSE SyntaxError

\* JSON.parse(text): the value, or ok = FALSE for a SyntaxError
JSONParse(text) == WholeText(text, ParseValue(text, Skip(text, 1, JsonWhitespace)))

(***************************************************************************)
(* progressiveParser.js                                                    *)
(***************************************************************************)
\* what a parsing strategy returns: the value, or null
Found(value) == [found |-> TRUE, value |-> value]
NotFound == [found |-> FALSE, value |-> JV("null", <<>>, <<>>)]

\* try { return JSON.parse(text) } catch { return null }
TryParse(p) == IF p.ok /\ p.value.t # "null" THEN Found(p.value) ELSE NotFound

\* directParse(text)
directParse(text) == IF text = <<>> THEN NotFound ELSE TryParse(JSONParse(text))

\* text.indexOf(c, i - 1) + 1 in 1-based positions: 0 when c is not found
IndexOf(text, c, i) ==
    IF \E j \in i..Len(text) : text[j] = c
    THEN CHOOSE j \in i..Len(text) : text[j] = c /\ \A k \in i..(j - 1) : text[k] # c
    ELSE 0

\* text.lastIndexOf(c, i - 1) + 1
LastIndexOf(text, c, i) ==
    IF \E j \in 1..i : text[j] = c
    THEN CHOOSE j \in 1..i : text[j] = c /\ \A k \in (j + 1)..i : text[k] # c
    ELSE 0

\* one iteration of the loop of extractFirstObject; st.end becomes the
\* position of the brace that brings depth back to 0
extractFirstObjectAt(text, st) ==
    IF st.escapeNext THEN [st EXCEPT !.i = @ + 1, !.escapeNext = FALSE]
    ELSE IF text[st.i] = "\\" THEN [st EXCEPT !.i = @ + 1, !.escapeNext = TRUE]
    ELSE IF st.inString THEN [st EXCEPT !.i = @ + 1, !.inString = (text[st.i] # "\"")]
    ELSE IF text[st.i] = "\"" THEN [st EXCEPT !.i = @ + 1, !.inString = TRUE]
    ELSE IF text[st.i] = "{" THEN [st EXCEPT !.i = @ + 1, !.depth = @ + 1]
    ELSE IF text[st.i] = "}" /\ st.depth - 1 = 0
    THEN [st EXCEPT !.i = Len(text) + 1, !.depth = 0, !.end = st.i]
    ELSE IF text[st.i] = "}" THEN [st EXCEPT !.i = @ + 1, !.depth = @ - 1]
    ELSE [st EXCEPT !.i = @ + 1]

\* the loop of extractFirstObject from position start: the position of the
\* brace that brings depth back to 0, or 0 when the text ends first
ObjectEnd(text, start) ==
    Run(Loop("extractFirstObject"), text,
        [i |-> start, depth |-> 0, inString |-> FALSE, escapeNext |-> FALSE, end |-> 0]).end

\* the substring a scanner selects: text.slice(from - 1, to), or none
Selected(text, from, to) ==
    IF from = 0 \/ to = 0 THEN [found |-> FALSE, str |-> <<>>]
    ELSE [found |-> TRUE, str |-> Slice(text, from, to)]

\* the substring extractFirstObject hands to JSON.parse
firstObjectText(text) ==
    Selected(text, IndexOf(text, "{", 1),
             IF IndexOf(text, "{", 1) = 0 THEN 0 ELSE ObjectEnd(text, IndexOf(text, "{", 1)))

ParseSelected(sel) == IF sel.found THEN TryParse(JSONParse(sel.str)) ELSE NotFound

\* extractFirstObject(text)
extractFirstObject(text) == ParseSelected(firstObjectText(text))

\* \s of a regular expression, as far as these characters occur in a text;
\* "<U+00A0>" is the non-breaking space and "<U+FEFF>" the byte order mark
RegexWhitespace == {" ", "\t", "\n", "\r", "\f", "<U+00A0>", "<U+FEFF>"}

\* characters that . of a regular expression does not match
LineTerminators == {"\n", "\r"}

Letters ==
    {"a", "b", "c", "d", "e", "f", "g", "h", "i", "j", "k", "l", "m", "n", "o", "p", "q",
     "r", "s", "t", "u", "v", "w", "x", "y", "z", "A", "B", "C", "D", "E", "F", "G", "H",
     "I", "J", "K", "L", "M", "N", "O", "P", "Q", "R", "S", "T", "U", "V", "W", "X", "Y",
     "Z"}

IdentifierStart == Letters \cup {"_", "$"}
IdentifierPart == IdentifierStart \cup Digits

\* (?=\s*[,:\]}]) at position i
BeforeDelimiter(text, i) == At(text, Skip(text, i, RegexWhitespace)) \in {",", ":", "]", "}"}

\* /,(\s*[}\]])/ at position st.i, replaced by '$1'
removeTrailingCommasAt(text, st) ==
    IF text[st.i] = "," /\ At(text, Skip(text, st.i + 1, RegexWhitespace)) \in {"}", "]"}
    THEN Emit(st, <<>>, st.i + 1) ELSE Keep(text, st)

\* replace(/,(\s*[}\]])/g, '$1')
removeTrailingCommas(text) == Run(Loop("removeTrailingCommas"), text, Replacing).out

\* the name of a match of the next pattern begins at j and ends before k
QuotedName(text, st, j, k) ==
    IF At(text, Skip(text, k, RegexWhitespace)) = ":"
    THEN Emit(st, Slice(text, st.i, j - 1) \o <<"\"">> \o Slice(text, j, k - 1) \o <<"\"", ":">>,
              Skip(text, k, RegexWhitespace) + 1)
    ELSE Keep(text, st)

\* /([{,]\s*)([a-zA-Z_$][a-zA-Z0-9_$]*)\s*:/ at position st.i, replaced by
\* '$1"$2":'
quotePropertyNamesAt(text, st) ==
    IF text[st.i] \in {"{", ","}
          /\ At(text, Skip(text, st.i + 1, RegexWhitespace)) \in IdentifierStart
    THEN QuotedName(text, st, Skip(text, st.i + 1, RegexWhitespace),
                    Skip(text, Skip(text, st.i + 1, RegexWhitespace), IdentifierPart))
    ELSE Keep(text, st)

\* replace(/([{,]\s*)([a-zA-Z_$][a-zA-Z0-9_$]*)\s*:/g, '$1"$2":')
quotePropertyNames(text) == Run(Loop("quotePropertyNames"), text, Replacing).out

\* [^'\\]*(\\.[^'\\]*)*' read at position st.i: st.end becomes the position
\* of the closing quote
SingleQuoteEndAt(text, st) ==
    IF text[st.i] = "'" THEN [i |-> Len(text) + 1, end |-> st.i]
    ELSE IF text[st.i] = "\\"
    THEN IF st.i + 1 <= Len(text) /\ text[st.i + 1] \notin LineTerminators
         THEN [i |-> st.i + 2, end |-> 0] ELSE [i |-> Len(text) + 1, end |-> 0]
    ELSE [i |-> st.i + 1, end |-> 0]

\* [^'\\]*(\\.[^'\\]*)*' from position i: the position of the closing quote,
\* 0 when there is no match
SingleQuoteEnd(text, i) == Run(Loop("SingleQuoteEnd"), text, [i |-> i, end |-> 0]).end

\* the match that opens at st.i closes at e
DoubleQuoted(text, st, e) ==
    IF e # 0 /\ BeforeDelimiter(text, e + 1)
    THEN Emit(st, <<"\"">> \o Slice(text, st.i + 1, e - 1) \o <<"\"">>, e + 1)
    ELSE Keep(text, st)

\* /(?<!\\)'([^'\\]*(\\.[^'\\]*)*)'(?=\s*[,:\]}])/ at position st.i,
\* replaced by '"$1"'
singleToDoubleQuotesAt(text, st) ==
    IF text[st.i] = "'" /\ At(text, st.i - 1) # "\\"
    THEN DoubleQuoted(text, st, SingleQuoteEnd(text, st.i + 1))
    ELSE Keep(text, st)

\* replace(/(?<!\\)'([^'\\]*(\\.[^'\\]*)*)'(?=\s*[,:\]}])/g, '"$1"')
singleToDoubleQuotes(text) == Run(Loop("singleToDoubleQuotes"), text, Replacing).out

\* q2, q3 and q4 are the three quotes after the one at st.i
InnerEscaped(text, st, q2, q3, q4) ==
    IF q3 # 0 /\ q4 # 0 /\ BeforeDelimiter(text, q4 + 1)
    THEN Emit(st, <<"\"">> \o Slice(text, st.i + 1, q2 - 1) \o <<"\\", "\"">>
                  \o Slice(text, q2 + 1, q3 - 1) \o <<"\\", "\"">>
                  \o Slice(text, q3 + 1, q4 - 1) \o <<"\"">>, q4 + 1)
    ELSE Keep(text, st)

\* /"([^"]*)"([^"]*)"([^"]*)"(?=\s*[,:\]}])/ at position st.i, replaced by
\* '"$1\\"$2\\"$3"'
escapeInnerQuotesAt(text, st) ==
    IF text[st.i] = "\"" /\ IndexOf(text, "\"", st.i + 1) # 0
    THEN InnerEscaped(text, st, IndexOf(text, "\"", st.i + 1),
                      IndexOf(text, "\"", IndexOf(text, "\"", st.i + 1) + 1),
                      IF IndexOf(text, "\"", IndexOf(text, "\"", st.i + 1) + 1) = 0 THEN 0
                      ELSE IndexOf(text, "\"",
                                   IndexOf(text, "\"", IndexOf(text, "\"", st.i + 1) + 1) + 1))
    ELSE Keep(text, st)

\* replace(/"([^"]*)"([^"]*)"([^"]*)"(?=\s*[,:\]}])/g, '"$1\\"$2\\"$3"')
escapeInnerQuotes(text) == Run(Loop("escapeInnerQuotes"), text, Replacing).out

\* a quote after the last closing brace or bracket gets a partner
closeLastString(text) ==
    IF LastIndexOf(text, "\"", Len(text)) >
          (IF LastIndexOf(text, "}", Len(text)) > LastIndexOf(text, "]", Len(text))
           THEN LastIndexOf(text, "}", Len(text)) ELSE LastIndexOf(text, "]", Len(text)))
    THEN Append(text, "\"") ELSE text

\* one iteration of the counting loop of repairCommonIssues
BalanceAt(text, st) ==
    IF st.escapeNext THEN [st EXCEPT !.i = @ + 1, !.escapeNext = FALSE]
    ELSE IF text[st.i] = "\\" THEN [st EXCEPT !.i = @ + 1, !.escapeNext = TRUE]
    ELSE IF st.inString THEN [st EXCEPT !.i = @ + 1, !.inString = (text[st.i] # "\"")]
    ELSE CASE text[st.i] = "\"" -> [st EXCEPT !.i = @ + 1, !.inString = TRUE]
           [] text[st.i] = "{" -> [st EXCEPT !.i = @ + 1, !.openBraces = @ + 1]
           [] text[st.i] = "}" -> [st EXCEPT !.i = @ + 1, !.openBraces = @ - 1]
           [] text[st.i] = "[" -> [st EXCEPT !.i = @ + 1, !.openBrackets = @ + 1]
           [] text[st.i] = "]" -> [st EXCEPT !.i = @ + 1, !.openBrackets = @ - 1]
           [] OTHER -> [st EXCEPT !.i = @ + 1]

\* the counting loop of repairCommonIssues
Unbalanced(text) ==
    Run(Loop("Balance"), text,
        [i |-> 1, openBraces |-> 0, openBrackets |-> 0, inString |-> FALSE,
         escapeNext |-> FALSE])

\* s.repeat(Math.max(0, k))
RECURSIVE Repeat(_, _)
Repeat(s, k) == IF k <= 0 THEN <<>> ELSE s \o Repeat(s, k - 1)

\* the end of repairCommonIssues: the open string, braces and brackets of
\* repaired are closed
closeOpen(repaired, st) ==
    (IF st.inString THEN Append(repaired, "\"") ELSE repaired)
    \o Repeat(<<"}", "}">>, st.openBraces) \o Repeat(<<"]", "]">>, st.openBrackets)

closeAll(repaired) == closeOpen(repaired, Unbalanced(repaired))

\* the four replace() calls of repairCommonIssues
replaceAll(text) ==
    escapeInnerQuotes(singleToDoubleQuotes(quotePropertyNames(removeTrailingCommas(text))))

\* repairCommonIssues(text)
repairCommonIssues(text) == closeAll(closeLastString(replaceAll(text)))

\* the result of parse: success, data and method
ParseResult(r, method) == [success |-> r.found, data |-> r.value, method |-> method]

\* mutant: extraction is tried on the repaired text before the direct parse
parseRepaired_swapped(repairedText) ==
    IF extractFirstObject(repairedText).found
    THEN ParseResult(extractFirstObject(repairedText), "extracted-repaired")
    ELSE IF directParse(repairedText).found
    THEN ParseResult(directParse(repairedText), "repaired")
    ELSE ParseResult(NotFound, "failed")

\* strategies 3 and 4 of parse, on the repaired text
parseRepaired(repairedText) ==
    IF directParse(repairedText).found
    THEN ParseResult(directParse(repairedText), "repaired")
    ELSE IF extractFirstObject(repairedText).found
    THEN ParseResult(extractFirstObject(repairedText), "extracted-repaired")
    ELSE ParseResult(NotFound, "failed")

\* parse(sanitizedText)
parse(sanitizedText) ==
    IF sanitizedText = <<>> THEN ParseResult(NotFound, "none")
    ELSE IF directParse(sanitizedText).found
    THEN ParseResult(directParse(sanitizedText), "direct")
    ELSE IF extractFirstObject(sanitizedText).found
    THEN ParseResult(extractFirstObject(sanitizedText), "extracted")
    ELSE parseRepaired(repairCommonIssues(sanitizedText))
(***************************************************************************)
(* getFallbackChallenge called on its own                                  *)
(***************************************************************************)
\* the filters the provider is called with: strings that match no language
\* or no difficulty of the language, matching strings in another letter case,
\* absent fields, and a field that is no string
ProviderFilters ==
    { Filters(Str("Klingon"), Str("Hard"), Absent),
      Filters(Str("javascript"), Str("BEGINNER"), Absent),
      Filters(Str("java"), Str("Advanced"), Absent),
      Filters(Absent, Absent, Absent),
      Filters(Num("5"), Str("Hard"), Absent) }

\* history: the call of getFallbackChallenge made last and its outcome
Provided(filters, thrown, challenge) ==
    [op |-> "fallback", filters |-> filters, thrown |-> thrown, challenge |-> challenge]

\* getFallbackChallenge(f)
CallFallback(f) ==
    /\ \E g \in getFallbackChallenge(f, recentChallenges, fallbackCache, now) :
          /\ recentChallenges' = g.recent
          /\ fallbackCache' = g.cache
          /\ event' = Provided(f, g.thrown, g.challenge)
    /\ UNCHANGED <<now, circuitBreaker, calls, openedAt, sinceHalfOpen,
                   consecutiveFailures, requests>>
    /\ UNCHANGED storeVars

\* time passes between two calls: the ttl of a cache entry, or just more
IdleTime ==
    /\ \E d \in {FallbackTTL, FallbackTTL + 1} :
          /\ now + d <= MaxFallbackClock
          /\ now' = now + d
    /\ event' = [event EXCEPT !.op = "idle"]
    /\ UNCHANGED <<circuitBreaker, calls, openedAt, sinceHalfOpen,
                   consecutiveFailures, requests, recentChallenges, fallbackCache>>
    /\ UNCHANGED storeVars

(***************************************************************************)
(* jsonSanitizer.js: sanitize.  The backtick and the characters outside    *)
(* ASCII are written "<U+hhhh>" with their code point.                     *)
(***************************************************************************)
\* i is within text and word begins there
StartsWith(text, i, word) ==
    i + Len(word) - 1 <= Len(text) /\ SubSeq(text, i, i + Len(word) - 1) = word

UpperLetters ==
    <<"A", "B", "C", "D", "E", "F", "G", "H", "I", "J", "K", "L", "M", "N", "O", "P", "Q",
      "R", "S", "T", "U", "V", "W", "X", "Y", "Z">>
LowerLetters ==
    <<"a", "b", "c", "d", "e", "f", "g", "h", "i", "j", "k", "l", "m", "n", "o", "p", "q",
      "r", "s", "t", "u", "v", "w", "x", "y", "z">>

\* the character a pattern with flag i compares
LowerCase(c) ==
    IF \E k \in 1..26 : UpperLetters[k] = c
    THEN LowerLetters[CHOOSE k \in 1..26 : UpperLetters[k] = c] ELSE c

StartsWithIgnoreCase(text, i, word) ==
    /\ i + Len(word) - 1 <= Len(text)
    /\ \A k \in 1..Len(word) : LowerCase(text[i + k - 1]) = word[k]

\* pattern at position st.i, replaced by replacement
ReplaceLiteralAt(loop, text, st) ==
    IF StartsWith(text, st.i, loop.pattern)
    THEN Emit(st, loop.replacement, st.i + Len(loop.pattern)) ELSE Keep(text, st)

\* text.replace(/pattern/g, replacement) for a pattern without operators
ReplaceLiteral(text, pattern, replacement) ==
    Run(Literal(pattern, replacement), text, Replacing).out

Fence == <<"<U+0060>", "<U+0060>", "<U+0060>">>

\* (?:json|javascript|js)? at position i: the position after it
AfterLanguage(text, i) ==
    IF StartsWithIgnoreCase(text, i, <<"j", "s", "o", "n">>) THEN i + 4
    ELSE IF StartsWithIgnoreCase(text, i, <<"j", "a", "v", "a", "s", "c", "r", "i", "p", "t">>)
    THEN i + 10
    ELSE IF StartsWithIgnoreCase(text, i, <<"j", "s">>) THEN i + 2
    ELSE i

\* the first fence at or after position i, 0 when there is none
FindFence(text, i) ==
    IF \E j \in i..Len(text) : StartsWith(text, j, Fence)
    THEN CHOOSE j \in i..Len(text) :
             StartsWith(text, j, Fence) /\ \A k \in i..(j - 1) : ~StartsWith(text, k, Fence)
    ELSE 0

\* the block that opens at st.i has its content from s on and its closing
\* fence at c
CodeBlock(text, st, s, c) ==
    IF c = 0 THEN Keep(text, st)
    ELSE Emit(st, Slice(text, s, IF c - 1 >= s /\ text[c - 1] = "\n" THEN c - 2 ELSE c - 1),
              c + 3)

\* /```(?:json|javascript|js)?\s*\n?([\s\S]*?)\n?```/i at position st.i,
\* replaced by '$1'
removeCodeBlocksAt(text, st) ==
    IF StartsWith(text, st.i, Fence)
    THEN CodeBlock(text, st, Skip(text, AfterLanguage(text, st.i + 3), RegexWhitespace),
                   FindFence(text, Skip(text, AfterLanguage(text, st.i + 3), RegexWhitespace)))
    ELSE Keep(text, st)

\* replace(/```(?:json|javascript|js)?\s*\n?([\s\S]*?)\n?```/gi, '$1')
removeCodeBlocks(text) == Run(Loop("removeCodeBlocks"), text, Replacing).out

\* /`([^`]*)`/ at position st.i, replaced by '$1'
removeInlineCodeAt(text, st) ==
    IF text[st.i] = "<U+0060>" /\ IndexOf(text, "<U+0060>", st.i + 1) # 0
    THEN Emit(st, Slice(text, st.i + 1, IndexOf(text, "<U+0060>", st.i + 1) - 1),
              IndexOf(text, "<U+0060>", st.i + 1) + 1)
    ELSE Keep(text, st)

\* replace(/`([^`]*)`/g, '$1')
removeInlineCode(text) == Run(Loop("removeInlineCode"), text, Replacing).out

\* ^ with flag m at position i
LineStart(text, i) == i = 1 \/ text[i - 1] \in LineTerminators

\* /^\s*#+\s*/m at position st.i, replaced by ''
removeHeadersAt(text, st) ==
    IF LineStart(text, st.i) /\ At(text, Skip(text, st.i, RegexWhitespace)) = "#"
    THEN Emit(st, <<>>, Skip(text, Skip(text, Skip(text, st.i, RegexWhitespace), {"#"}),
                             RegexWhitespace))
    ELSE Keep(text, st)

\* replace(/^\s*#+\s*/gm, '')
removeHeaders(text) == Run(Loop("removeHeaders"), text, Replacing).out

\* /^\s*[-*+]\s*/m at position st.i, replaced by ''
removeListItemsAt(text, st) ==
    IF LineStart(text, st.i) /\ At(text, Skip(text, st.i, RegexWhitespace)) \in {"-", "*", "+"}
    THEN Emit(st, <<>>, Skip(text, Skip(text, st.i, RegexWhitespace) + 1, RegexWhitespace))
    ELSE Keep(text, st)

\* replace(/^\s*[-*+]\s*/gm, '')
removeListItems(text) == Run(Loop("removeListItems"), text, Replacing).out

\* text.trim()
trimEnd(text) ==
    IF \A j \in 1..Len(text) : text[j] \in RegexWhitespace THEN <<>>
    ELSE SubSeq(text, 1, CHOOSE j \in 1..Len(text) :
                             /\ text[j] \notin RegexWhitespace
                             /\ \A k \in (j + 1)..Len(text) : text[k] \in RegexWhitespace)

trim(text) == trimEnd(Slice(text, Skip(text, 1, RegexWhitespace), Len(text)))

\* removeMarkdownBlocks(text)
removeMarkdownBlocks(text) ==
    trim(removeListItems(removeHeaders(removeInlineCode(removeCodeBlocks(text)))))

\* the eight replace() calls of fixCharacterEncoding, the first four ...
encodedQuotes(text) ==
    ReplaceLiteral(
      ReplaceLiteral(
        ReplaceLiteral(
          ReplaceLiteral(text,
            <<"<U+00C3>", "<U+00A2>", "<U+00E2>", "<U+201A>", "<U+00AC>", "<U+00E2>",
              "<U+201E>", "<U+00A2>">>, <<"'">>),
          <<"<U+00C3>", "<U+00A2>", "<U+00E2>", "<U+201A>", "<U+00AC>", "<U+00C5>", "\"">>,
          <<"\"">>),
        <<"<U+00C3>", "<U+00A2>", "<U+00E2>", "<U+201A>", "<U+00AC>", "<U+009D>">>,
        <<"\"">>),
      <<"<U+00C3>", "<U+00A2>", "<U+00E2>", "<U+201A>", "<U+00AC>", "<U+00E2>", "<U+20AC>",
        "<U+0153>">>, <<"<U+2014>">>)

\* ... and the last four
encodingArtifacts(text) ==
    ReplaceLiteral(
      ReplaceLiteral(
        ReplaceLiteral(
          ReplaceLiteral(text, <<"<U+00E2>", "<U+20AC>", "<U+2122>">>, <<"'">>),
          <<"<U+00E2>", "<U+20AC>", "<U+0153>">>, <<"\"">>),
        <<"<U+00E2>", "<U+20AC>", "<U+009D>">>, <<"\"">>),
      <<"<U+00E2>", "<U+20AC>", "\"">>, <<"<U+2014>">>)

\* fixCharacterEncoding(text)
fixCharacterEncoding(text) == encodingArtifacts(encodedQuotes(text))

\* what the replace() calls of fixQuotes make of one character: dashes,
\* the ellipsis, the non-breaking space and the zero-width characters
FixedQuote(c) ==
    CASE c \in {"<U+2013>", "<U+2014>"} -> <<"-">>
      [] c = "<U+2026>" -> <<".", ".", ".">>
      [] c = "<U+00A0>" -> <<" ">>
      [] c \in {"<U+200B>", "<U+200C>", "<U+200D>", "<U+FEFF>"} -> <<>>
      [] OTHER -> <<c>>

\* the replace() calls of fixQuotes at position st.i
fixQuotesAt(text, st) == Emit(st, FixedQuote(text[st.i]), st.i + 1)

\* fixQuotes(text)
fixQuotes(text) == Run(Loop("fixQuotes"), text, Replacing).out

\* /\r/ at position st.i, replaced by '\n'
returnsToNewlinesAt(text, st) ==
    Emit(st, <<IF text[st.i] = "\r" THEN "\n" ELSE text[st.i]>>, st.i + 1)

\* replace(/\r/g, '\n')
returnsToNewlines(text) == Run(Loop("returnsToNewlines"), text, Replacing).out

\* /\n\s*\n/ at position st.i, replaced by '\n'
removeBlankLinesAt(text, st) ==
    IF text[st.i] = "\n"
          /\ LastIndexOf(text, "\n", Skip(text, st.i + 1, RegexWhitespace) - 1) > st.i
    THEN Emit(st, <<"\n">>,
              LastIndexOf(text, "\n", Skip(text, st.i + 1, RegexWhitespace) - 1) + 1)
    ELSE Keep(text, st)

\* replace(/\n\s*\n/g, '\n')
removeBlankLines(text) == Run(Loop("removeBlankLines"), text, Replacing).out

\* normalizeLineBreaks(text)
normalizeLineBreaks(text) ==
    trim(removeBlankLines(
           ReplaceLiteral(
             returnsToNewlines(ReplaceLiteral(text, <<"\r", "\n">>, <<"\n">>)),
             <<"\\", "n">>, <<"\\", "n">>)))

\* sanitize(rawText)
sanitize(rawText) ==
    normalizeLineBreaks(fixQuotes(fixCharacterEncoding(removeMarkdownBlocks(rawText))))

\* one iteration of the loop of that name
Step(loop, text, st) ==
    CASE loop.name = "extractFirstObject" -> extractFirstObjectAt(text, st)
      [] loop.name = "removeTrailingCommas" -> removeTrailingCommasAt(text, st)
      [] loop.name = "quotePropertyNames" -> quotePropertyNamesAt(text, st)
      [] loop.name = "SingleQuoteEnd" -> SingleQuoteEndAt(text, st)
      [] loop.name = "singleToDoubleQuotes" -> singleToDoubleQuotesAt(text, st)
      [] loop.name = "escapeInnerQuotes" -> escapeInnerQuotesAt(text, st)
      [] loop.name = "Balance" -> BalanceAt(text, st)
      [] loop.name = "ReplaceLiteral" -> ReplaceLiteralAt(loop, text, st)
      [] loop.name = "removeCodeBlocks" -> removeCodeBlocksAt(text, st)
      [] loop.name = "removeInlineCode" -> removeInlineCodeAt(text, st)
      [] loop.name = "removeHeaders" -> removeHeadersAt(text, st)
      [] loop.name = "removeListItems" -> removeListItemsAt(text, st)
      [] loop.name = "fixQuotes" -> fixQuotesAt(text, st)
      [] loop.name = "returnsToNewlines" -> returnsToNewlinesAt(text, st)
      [] loop.name = "removeBlankLines" -> removeBlankLinesAt(text, st)
(***************************************************************************)
(* memoryMonitor.js: StreamingJSONParser                                   *)
(***************************************************************************)
\* the variables of extractJSONFromLargeString; positions count from 1 and
\* 0 stands for -1
ScanStart ==
    [braceCount |-> 0, inString |-> FALSE, escaped |-> FALSE, jsonStart |-> 0, jsonEnd |-> 0]

\* text.slice(processedLength, processedLength + chunkSize).length
ChunkLength(text, chunkSize, processedLength) ==
    IF Len(text) - processedLength < chunkSize THEN Len(text) - processedLength
    ELSE chunkSize

\* the loops of extractJSONFromLargeString: the chunk begins after
\* processedLength characters and i characters of it have been looked at
RECURSIVE ScanChunks(_, _, _, _, _)
ScanChunks(text, chunkSize, processedLength, i, st) ==
    IF st.jsonEnd # 0 \/ processedLength >= Len(text) THEN st
    ELSE IF i >= ChunkLength(text, chunkSize, processedLength)
    THEN ScanChunks(text, chunkSize, processedLength + chunkSize, 0, st)
    ELSE IF st.escaped
    THEN ScanChunks(text, chunkSize, processedLength, i + 1, [st EXCEPT !.escaped = FALSE])
    ELSE IF text[processedLength + i + 1] = "\\" /\ st.inString
    THEN ScanChunks(text, chunkSize, processedLength, i + 1, [st EXCEPT !.escaped = TRUE])
    ELSE IF text[processedLength + i + 1] = "\""
    THEN ScanChunks(text, chunkSize, processedLength, i + 1,
                    [st EXCEPT !.inString = ~st.inString])
    ELSE IF ~st.inString /\ text[processedLength + i + 1] = "{"
    THEN ScanChunks(text, chunkSize, processedLength, i + 1,
                    [st EXCEPT !.braceCount = @ + 1,
                               !.jsonStart = IF @ = 0 THEN processedLength + i + 1 ELSE @])
    ELSE IF ~st.inString /\ text[processedLength + i + 1] = "}"
    THEN ScanChunks(text, chunkSize, processedLength, i + 1,
                    [st EXCEPT !.braceCount = @ - 1,
                               !.jsonEnd = IF st.braceCount - 1 = 0 /\ st.jsonStart # 0
                                           THEN processedLength + i + 1 ELSE 0])
    ELSE ScanChunks(text, chunkSize, processedLength, i + 1, st)

\* the substring extractJSONFromLargeString hands to JSON.parse, or none
\* where it throws 'No valid JSON object found in response'
StreamedText(text, st) == Selected(text, st.jsonStart, st.jsonEnd)

streamedObjectText(text, chunkSize) ==
    StreamedText(text, ScanChunks(text, chunkSize, 0, 0, ScanStart))

\* what the scanner returns or throws
Streamed(value) == [thrown |-> FALSE, value |-> value]
StreamThrows == [thrown |-> TRUE, value |-> JV("null", <<>>, <<>>)]

\* return JSON.parse(jsonString)
ParseOrThrow(p) == IF p.ok THEN Streamed(p.value) ELSE StreamThrows

ParseStreamed(sel) == IF sel.found THEN ParseOrThrow(JSONParse(sel.str)) ELSE StreamThrows

\* extractJSONFromLargeString(text) with this.maxChunkSize = chunkSize
extractJSONFromLargeString(text, chunkSize) ==
    ParseStreamed(streamedObjectText(text, chunkSize))

(***************************************************************************)
(* jsonParsingPipeline.js: processResponse on the text of a response       *)
(***************************************************************************)
\* the literals 0.3, 0.4 and 0.5 rounded to double
Lit03 == Double(6, -32)
Lit04 == Double(8, 64)
Lit05 == Double(10, 0)

\* Math.max(a, b)
MathMax(a, b) == IF LessThan(a, b) THEN b ELSE a

\* (text.match(/c/g) || []).length
Count(text, c) == Cardinality({j \in 1..Len(text) : text[j] = c})

\* the confidence of validateResponse after the brace balance
AfterBraces(braceBalance) ==
    IF braceBalance > 0 THEN MathMax(Lit03, Minus(One, Lit04))
    ELSE IF braceBalance < 0 THEN MathMax(Lit05, Minus(One, Lit02))
    ELSE One

\* mutant: the pattern of the unterminated string is left out
Truncated_twoPatterns(trimmed) ==
    \/ Len(trimmed) >= 3 /\ SubSeq(trimmed, Len(trimmed) - 2, Len(trimmed)) = <<".", ".", ".">>
    \/ \E p \in 1..Len(trimmed) :
          /\ trimmed[p] \notin {"\"", "}"}
          /\ \A k \in (p + 1)..Len(trimmed) : trimmed[k] \in RegexWhitespace

\* one of /\.\.\.$/, /[^"}]\s*$/ and /"[^"]*$/ matches
Truncated(trimmed) ==
    \/ Len(trimmed) >= 3 /\ SubSeq(trimmed, Len(trimmed) - 2, Len(trimmed)) = <<".", ".", ".">>
    \/ \E p \in 1..Len(trimmed) :
          /\ trimmed[p] \notin {"\"", "}"}
          /\ \A k \in (p + 1)..Len(trimmed) : trimmed[k] \in RegexWhitespace
    \/ \E p \in 1..Len(trimmed) :
          /\ trimmed[p] = "\""
          /\ \A k \in (p + 1)..Len(trimmed) : trimmed[k] # "\""

\* ... and after the truncation patterns
AfterTruncation(confidence, trimmed) ==
    IF Truncated(trimmed) THEN MathMax(Lit02, Minus(confidence, Lit03)) ELSE confidence

\* if (result.confidence < 0.5) result.isValid = false
ResponseVerdict(confidence) ==
    [isValid |-> ~LessThan(confidence, Lit05), confidence |-> confidence]

\* validateResponse(response)
validateResponse(response) ==
    IF Len(response) < 50 THEN [isValid |-> FALSE, confidence |-> Double(0, 0)]
    ELSE IF Count(response, "{") = 0 \/ Count(response, "}") = 0
    THEN [isValid |-> FALSE, confidence |-> Lit01]
    ELSE ResponseVerdict(AfterTruncation(AfterBraces(Count(response, "{") - Count(response, "}")),
                                         trim(response)))

\* the characters of a string, and the string of a sequence of characters
Chars(s) == [i \in 1..Len(s) |-> SubSeq(s, i, i)]

RECURSIVE Text(_)
Text(chars) ==
    IF chars = <<>> THEN ""
    ELSE IF Len(chars) = 1 THEN chars[1]
    ELSE Text(SubSeq(chars, 1, Len(chars) \div 2))
         \o Text(SubSeq(chars, Len(chars) \div 2 + 1, Len(chars)))

\* String(value) for a parsed value; an array is joined with commas, null
\* elements as '', and a number reads as its literal does, which holds for
\* the integers that the responses contain
RECURSIVE StringOf(_), Joined(_)
StringOf(jv) ==
    CASE jv.t \in {"str", "num"} -> Text(jv.s)
      [] jv.t = "obj" -> "[object Object]"
      [] jv.t = "arr" -> Joined(jv.kids)
      [] OTHER -> jv.t

Joined(kids) ==
    IF kids = <<>> THEN ""
    ELSE (IF Head(kids).t = "null" THEN "" ELSE StringOf(Head(kids)))
         \o (IF Len(kids) = 1 THEN "" ELSE "," \o Joined(Tail(kids)))

\* a parsed value as a JavaScript value
ToValue(jv) ==
    CASE jv.t = "str" -> Str(Text(jv.s))
      [] jv.t = "num" -> Num(Text(jv.s))
      [] jv.t \in {"true", "false"} -> Bool(jv.t)
      [] jv.t = "null" -> Null
      [] jv.t = "obj" -> Obj
      [] jv.t = "arr" -> Arr(StringOf(jv), Len(jv.kids))

\* object[key] for a parsed value
Has(jv, key) == jv.t = "obj" /\ \E i \in 1..Len(jv.kids) : Text(jv.kids[i].key) = key
Member(jv, key) == jv.kids[CHOOSE i \in 1..Len(jv.kids) : Text(jv.kids[i].key) = key].value
Field(jv, key) == IF Has(jv, key) THEN ToValue(Member(jv, key)) ELSE Absent

\* an entry of testCases
ToCase(jv) ==
    IF jv.t = "obj" THEN TestCase(Field(jv, "input"), Field(jv, "expected"))
    ELSE NonObjectCase(ToValue(jv).t)

ToCaseItems(jv) == [i \in 1..Len(jv.kids) |-> ToCase(jv.kids[i])]

\* what JSON.parse makes of a testCases string
CasesOfString(s, p) ==
    IF ~p.ok THEN CasesString("error", <<>>)
    ELSE IF p.value.t = "arr" THEN CasesString("arr", ToCaseItems(p.value))
    ELSE CasesString("other", <<>>)

\* the testCases field
ToCases(jv) ==
    CASE jv.t = "arr" -> CasesArray(ToCaseItems(jv))
      [] jv.t = "str" -> CasesOfString(jv.s, JSONParse(jv.s))
      [] OTHER -> CasesOther(ToValue(jv).t)

\* the metadata field
ToMetadata(jv) ==
    [NoMetadata EXCEPT !.t = ToValue(jv).t,
                       !.source = IF Field(jv, "source").t = "str"
                                  THEN Field(jv, "source").v ELSE ""]

\* the parsed value of a response as the data that validate, normalizeTypes
\* and applyDefaults read
ToData(jv) ==
    [k |-> ToValue(jv).t,
     title |-> Field(jv, "title"), language |-> Field(jv, "language"),
     difficulty |-> Field(jv, "difficulty"), description |-> Field(jv, "description"),
     starterCode |-> Field(jv, "starterCode"), solution |-> Field(jv, "solution"),
     testCases |-> IF Has(jv, "testCases") THEN ToCases(Member(jv, "testCases")) ELSE NoCases,
     metadata |-> IF Has(jv, "metadata") THEN ToMetadata(Member(jv, "metadata"))
                  ELSE NoMetadata]

\* steps 2 and 3 of processResponse: the text is sanitized and parsed
parseSanitized(sanitizedText) ==
    IF sanitizedText = <<>> THEN ParseResult(NotFound, "sanitization")
    ELSE parse(sanitizedText)

\* steps 1 to 3 of processResponse
parseResponse(rawResponse) ==
    IF ~validateResponse(rawResponse).isValid THEN ParseResult(NotFound, "response-validation")
    ELSE parseSanitized(sanitize(rawResponse))

\* the text of a response as generateWithModels receives it
Received(rawResponse, parseResult) ==
    ModelText((Len(rawResponse) + 1023) \div 1024, parseResult.success,
              IF parseResult.success THEN ToData(parseResult.data) ELSE EmptyData("obj"))

ReceivedText(rawResponse) == Received(rawResponse, parseResponse(rawResponse))

\* a property name and a string literal as the model writes them
Key(name, unquoted) == IF unquoted THEN Chars(name) ELSE <<"\"">> \o Chars(name) \o <<"\"">>
StringLiteral(s, single) ==
    IF single THEN <<"'">> \o Chars(s) \o <<"'">> ELSE <<"\"">> \o Chars(s) \o <<"\"">>

\* a response in a markdown json fence, with unquoted keys, a single-quoted
\* string or a trailing comma as chosen
FencedResponse(unquoted, single, comma) ==
    Fence \o Chars("json\n{") \o Key("title", unquoted) \o Chars(":\"Two Sum\", ")
    \o Key("language", unquoted) \o <<":">> \o StringLiteral("JavaScript", single) \o Chars(", ")
    \o Key("difficulty", unquoted) \o Chars(":\"Beginner\", ")
    \o Key("description", unquoted) \o Chars(":\"...\", ")
    \o Key("starterCode", unquoted) \o Chars(":\"...\", ")
    \o Key("solution", unquoted) \o Chars(":\"...\", ")
    \o Key("testCases", unquoted) \o Chars(":[{") \o Key("input", unquoted) \o Chars(":{")
    \o Key("nums", unquoted) \o Chars(":[2,7],") \o Key("target", unquoted) \o Chars(":9}, ")
    \o Key("expected", unquoted) \o Chars(":[0,1]}")
    \o (IF comma THEN <<",">> ELSE <<>>) \o Chars("]}\n") \o Fence

FencedResponses == {FencedResponse(unquoted, single, comma) : unquoted, single, comma \in BOOLEAN}

\* what processResponse is given in the end-to-end scenario
FencedTexts == {ReceivedText(rawResponse) : rawResponse \in FencedResponses}

(***************************************************************************)
(* The text functions called on their own: event holds the argument and,   *)
(* once the function has been applied, its result.                         *)
(***************************************************************************)
\* the strings of n characters of an alphabet
RECURSIVE TextsOfLength(_, _)
TextsOfLength(alphabet, n) ==
    IF n = 0 THEN {<<>>}
    ELSE {Append(t, c) : t \in TextsOfLength(alphabet, n - 1), c \in alphabet}

TextsUpTo(alphabet, n) == UNION {TextsOfLength(alphabet, k) : k \in 0..n}

\* history: the text a function is about to be called with
Argument(text) == [op |-> "text", text |-> text]

\* the characters of the texts parse is called with, and JSON null
ParseAlphabet == {"{", "}", "\"", "'", ",", ":", "a", "1"}
ParseTexts == TextsUpTo(ParseAlphabet, MaxParseLength) \cup {<<"n", "u", "l", "l">>}

\* parse(sanitizedText)
ApplyParse ==
    /\ event.op = "text"
    /\ event' = [op |-> "parse", text |-> event.text, result |-> parse(event.text)]
    /\ UNCHANGED <<now, circuitBreaker, calls, openedAt, sinceHalfOpen,
                   consecutiveFailures, requests, recentChallenges, fallbackCache>>
    /\ UNCHANGED storeVars

\* the characters of the texts repairCommonIssues is called with
RepairAlphabet == {"{", "}", "[", "]", "\"", "a"}
RepairTexts == TextsUpTo(RepairAlphabet, MaxRepairLength)

\* repairCommonIssues(text)
ApplyRepair ==
    /\ event.op = "text"
    /\ event' = [op |-> "repair", text |-> event.text,
                 result |-> repairCommonIssues(event.text)]
    /\ UNCHANGED <<now, circuitBreaker, calls, openedAt, sinceHalfOpen,
                   consecutiveFailures, requests, recentChallenges, fallbackCache>>
    /\ UNCHANGED storeVars

\* the characters of the texts the streaming scanner is called with
StreamAlphabet == {"{", "}", "\"", "\\", "a"}
StreamTexts == TextsUpTo(StreamAlphabet, MaxStreamLength)

\* new StreamingJSONParser({maxChunkSize}).extractJSONFromLargeString(text)
ApplyStreaming(chunkSize) ==
    /\ event.op = "text"
    /\ event' = [op |-> "stream", text |-> event.text, chunkSize |-> chunkSize,
                 selected |-> streamedObjectText(event.text, chunkSize),
                 result |-> extractJSONFromLargeString(event.text, chunkSize)]
    /\ UNCHANGED <<now, circuitBreaker, calls, openedAt, sinceHalfOpen,
                   consecutiveFailures, requests, recentChallenges, fallbackCache>>
    /\ UNCHANGED storeVars

\* the values validate is called with: each string field is missing, good,
\* or an empty array; testCases is missing, a string, or an array of entries
\* that are complete, empty objects or null
TextValues(good) == {Absent, Str(good), Arr("", 0)}
CaseValues == {TestCase(Obj, Str("1")), TestCase(Absent, Absent), NonObjectCase("null")}
CasesValues ==
    {NoCases, CasesString("error", <<>>)}
    \cup {CasesArray(items) : items \in UNION {[1..n -> CaseValues] : n \in 0..MaxCases}}

ValidateInputs ==
    {EmptyData("str"), EmptyData("num")}
    \cup {[EmptyData("obj") EXCEPT !.title = title, !.language = language,
                                   !.difficulty = difficulty, !.description = description,
                                   !.starterCode = starterCode, !.solution = solution,
                                   !.testCases = testCases] :
             title \in TextValues("Two Sum"), language \in TextValues("Python"),
             difficulty \in TextValues("Advanced"),
             description \in TextValues("Return the indices of the two numbers."),
             starterCode \in TextValues("def two_sum(nums, target):"),
             solution \in TextValues("def two_sum(nums, target): return [0, 1]"),
             testCases \in CasesValues}

\* validate(data)
ApplyValidate ==
    /\ event.op = "data"
    /\ event' = [op |-> "validate", data |-> event.data, result |-> validate(event.data)]
    /\ UNCHANGED <<now, circuitBreaker, calls, openedAt, sinceHalfOpen,
                   consecutiveFailures, requests, recentChallenges, fallbackCache>>
    /\ UNCHANGED storeVars

\* the values the parser hands to the recovery pass of processResponse: a
\* string, a number, a boolean, an array, and objects whose fields are
\* missing, too short, of the wrong type or good; testCases is missing, a
\* string (not JSON, JSON of another value, JSON of an array), a number, or an
\* array
ParsedValues ==
    {EmptyData("str"), EmptyData("num"), EmptyData("bool"), EmptyData("arr")}
    \cup {[EmptyData("obj") EXCEPT !.title = title, !.language = language,
                                   !.difficulty = difficulty, !.description = description,
                                   !.starterCode = starterCode, !.solution = solution,
                                   !.testCases = testCases] :
             title \in {Absent, Str("ab"), Num("7"), Str("Two Sum")},
             language \in {Absent, Bool("true")},
             difficulty \in {Absent, Str("Hard"), Num("3"), Str("Expert")},
             description \in {Absent, Str("short"), Obj},
             starterCode \in {Null, Str("x"), Arr("1,2", 2)},
             solution \in {Absent, Str("y"), Str("def two_sum(nums, target): return [0, 1]")},
             testCases \in CasesValues
                           \cup {CasesString("other", <<>>), CasesOther("num"),
                                 CasesString("arr", <<NonObjectCase("null"),
                                                      TestCase(Absent, Null)>>)}}

\* processResponse from step 4 on, for a value that the parser returned:
\* schema is validate(parseResult.data), recovered what normalizeTypes and
\* applyDefaults make of the value, recovery validate(recovered), result
\* what processResponse returns
ApplyRecovery ==
    /\ event.op = "data"
    /\ event' = [op |-> "recovery", data |-> event.data,
                 schema |-> validate(event.data),
                 recovered |-> applyDefaults(normalizeTypes(event.data)),
                 recovery |-> validate(applyDefaults(normalizeTypes(event.data))),
                 result |-> processResponse(ModelText(1, TRUE, event.data))]
    /\ UNCHANGED <<now, circuitBreaker, calls, openedAt, sinceHalfOpen,
                   consecutiveFailures, requests, recentChallenges, fallbackCache>>
    /\ UNCHANGED storeVars

\* the characters of the texts sanitize is called with: header and list
\* markers, the backtick, an en dash, white space and a letter
SanitizeAlphabet == {"#", "-", "<U+0060>", "<U+2013>", " ", "\n", "x"}
SanitizeTexts == TextsUpTo(SanitizeAlphabet, MaxSanitizeLength)

\* sanitize(rawText)
ApplySanitize ==
    /\ event.op = "text"
    /\ event' = [op |-> "sanitize", text |-> event.text, result |-> sanitize(event.text)]
    /\ UNCHANGED <<now, circuitBreaker, calls, openedAt, sinceHalfOpen,
                   consecutiveFailures, requests, recentChallenges, fallbackCache>>
    /\ UNCHANGED storeVars

\* sanitize(result), result being what sanitize returned for text
ApplySanitizeAgain ==
    /\ event.op = "sanitize"
    /\ event' = [op |-> "sanitizeAgain", text |-> event.text, first |-> event.result,
                 result |-> sanitize(event.result)]
    /\ UNCHANGED <<now, circuitBreaker, calls, openedAt, sinceHalfOpen,
                   consecutiveFailures, requests, recentChallenges, fallbackCache>>
    /\ UNCHANGED storeVars

\* the responses processResponse is called with: the body of a JSON object
\* without its closing brace, with or without double quotes, or a body too
\* short to be accepted, between chosen characters
ResponseBodies ==
    { Chars("{\"title\":\"Two Sum\",\"language\":\"JavaScript\",\"testCases\":[]"),
      Chars("{title:Two Sum,language:JavaScript,difficulty:Beginner"),
      Chars("{\"title\":1") }
ResponseAlphabet == {"{", "}", "\"", " ", "."}
ResponseTexts ==
    { head \o body \o tail : head \in TextsUpTo(ResponseAlphabet, 1),
                             body \in ResponseBodies,
                             tail \in TextsUpTo(ResponseAlphabet, MaxTailLength) }

\* processResponse(rawResponse), steps 1 to 3: validation is what
\* validateResponse returned, result the parse result or the stage that
\* returned before the parser was run
ApplyProcessResponse ==
    /\ event.op = "text"
    /\ event' = [op |-> "processResponse", text |-> event.text,
                 validation |-> validateResponse(event.text),
                 result |-> parseResponse(event.text)]
    /\ UNCHANGED <<now, circuitBreaker, calls, openedAt, sinceHalfOpen,
                   consecutiveFailures, requests, recentChallenges, fallbackCache>>
    /\ UNCHANGED storeVars

(***************************************************************************)
(* The server: POST /api/getQuestion from the generated question on.  A    *)
(* hash in Hashes stands for the contentHash of a canonical Challenge, and *)
(* questions[hash] counts the set() calls that Firestore has applied to    *)
(* the document Questions/hash; 0 is a document that does not exist.       *)
(***************************************************************************)
IdleHandler == [pc |-> "idle", contentHash |-> 0]

\* history: what a step of handler h did; exists is snap.exists when the
\* step read the document, before and after the set() calls applied to the
\* handler's document ahead of the step and behind it
Upserted(op, h, hash, exists, after) ==
    [op |-> op, h |-> h, contentHash |-> hash, exists |-> exists,
     before |-> questions[hash], after |-> after]

\* the question is generated and contentHash computed; ref.get() is awaited
Finalize(h, hash) ==
    /\ handlers[h].pc = "idle"
    /\ handlers' = [handlers EXCEPT ![h] = [pc |-> "get", contentHash |-> hash]]
    /\ event' = Upserted("finalize", h, hash, FALSE, questions[hash])
    /\ UNCHANGED <<now, circuitBreaker, calls, openedAt, sinceHalfOpen, orchVars, questions>>
    /\ UNCHANGED utilVars

\* const snap = await ref.get() resolves: with the document there the
\* handler responds, else it calls ref.set() and awaits it
GetResolves(h) ==
    /\ handlers[h].pc = "get"
    /\ handlers' = [handlers EXCEPT ![h] =
                      IF questions[handlers[h].contentHash] > 0 THEN IdleHandler
                      ELSE [handlers[h] EXCEPT !.pc = "set"]]
    /\ event' = Upserted("get", h, handlers[h].contentHash,
                         questions[handlers[h].contentHash] > 0,
                         questions[handlers[h].contentHash])
    /\ UNCHANGED <<now, circuitBreaker, calls, openedAt, sinceHalfOpen, orchVars, questions>>
    /\ UNCHANGED utilVars

\* await ref.set(...) resolves: Firestore has written the document
SetResolves(h) ==
    /\ handlers[h].pc = "set"
    /\ questions' = [questions EXCEPT ![handlers[h].contentHash] = @ + 1]
    /\ handlers' = [handlers EXCEPT ![h] = IdleHandler]
    /\ event' = Upserted("set", h, handlers[h].contentHash, FALSE,
                         questions[handlers[h].contentHash] + 1)
    /\ UNCHANGED <<now, circuitBreaker, calls, openedAt, sinceHalfOpen, orchVars>>
    /\ UNCHANGED utilVars

\* ref.get() or ref.set() rejects: the catch block logs the error and the
\* handler responds
FirestoreFails(h) ==
    /\ handlers[h].pc \in {"get", "set"}
    /\ handlers' = [handlers EXCEPT ![h] = IdleHandler]
    /\ event' = Upserted("error", h, handlers[h].contentHash, FALSE,
                         questions[handlers[h].contentHash])
    /\ UNCHANGED <<now, circuitBreaker, calls, openedAt, sinceHalfOpen, orchVars, questions>>
    /\ UNCHANGED utilVars

(***************************************************************************)
(* cacheManager.js: InMemoryCache.  The instance is                        *)
(* new InMemoryCache({ maxSize, ttl }); cache maps a key to the timestamp  *)
(* and ttl of its entry, and accessOrder is the Map of access times as the *)
(* sequence of its [key, time] entries in insertion order.  Whether the    *)
(* memory terms of needsCleanup hold depends on the process, so pressure   *)
(* is an input of set.                                                     *)
(***************************************************************************)
\* options.maxSize and options.ttl (in ticks) of the instance
maxSize == 2
ttl == 2

EmptyCache == [cache |-> <<>>, accessOrder |-> <<>>]

\* Map.prototype.keys, has, set and delete on a sequence of [key, time] entries
MapKeys(map) == {map[i].key : i \in 1..Len(map)}

MapSet(map, key, time) ==
    IF key \in MapKeys(map)
    THEN [i \in 1..Len(map) |-> IF map[i].key = key THEN [key |-> key, time |-> time]
                                ELSE map[i]]
    ELSE Append(map, [key |-> key, time |-> time])

MapDelete(map, keys) == SelectSeq(map, LAMBDA e : e.key \notin keys)

\* the cache without the entries of keys
Deleted(c, keys) ==
    [cache |-> [k \in DOMAIN c.cache \ keys |-> c.cache[k]],
     accessOrder |-> MapDelete(c.accessOrder, keys)]

\* now - entry.timestamp > entry.ttl
Expired(entry, t) == t - entry.timestamp > entry.ttl

\* needsCleanup(): this.cache.size > this.maxSize, or one of the memory terms
needsCleanup(c, pressure) == Cardinality(DOMAIN c.cache) > maxSize \/ pressure

\* evictLRU(): the entries of accessOrder sorted by access time (the sort is
\* stable), deleted from the oldest on while cache.size > target
evictLRU(c) ==
    LET target == (maxSize * 8) \div 10
        order == c.accessOrder
        Before(i, j) == order[i].time < order[j].time
                        \/ (order[i].time = order[j].time /\ i < j)
        Rank(i) == 1 + Cardinality({j \in 1..Len(order) : Before(j, i)})
        excess == Max(0, Cardinality(DOMAIN c.cache) - target)
    IN Deleted(c, {order[i].key : i \in {j \in 1..Len(order) : Rank(j) <= excess}})

\* set(key, value): evict when cleanup is needed, then store the entry
CacheStore(c, key, pressure, t) ==
    LET kept == IF needsCleanup(c, pressure) THEN evictLRU(c) ELSE c
    IN [cache |-> [k \in DOMAIN kept.cache \cup {key} |->
                     IF k = key THEN [timestamp |-> t, ttl |-> ttl] ELSE kept.cache[k]],
        accessOrder |-> MapSet(kept.accessOrder, key, t)]

\* history: what an operation on the cache did
CacheEvent(op, key, before) == [op |-> op, key |-> key, before |-> before]

\* memoryCache.set(key, value)
CacheSetKey(key, pressure) ==
    /\ memoryCache' = CacheStore(memoryCache, key, pressure, now)
    /\ event' = CacheEvent("set", key, Cardinality(DOMAIN memoryCache.cache))
    /\ UNCHANGED <<now, circuitBreaker, calls, openedAt, sinceHalfOpen, orchVars,
                   questions, handlers, rateLimiter, allowedTimes>>

\* memoryCache.get(key): a miss, an expired entry that is deleted, or a hit
\* that updates the access time (the stored text always parses)
CacheGetKey(key) ==
    /\ memoryCache' =
          IF key \notin DOMAIN memoryCache.cache THEN memoryCache
          ELSE IF Expired(memoryCache.cache[key], now) THEN Deleted(memoryCache, {key})
          ELSE [memoryCache EXCEPT !.accessOrder = MapSet(@, key, now)]
    /\ event' = CacheEvent("get", key, Cardinality(DOMAIN memoryCache.cache))
    /\ UNCHANGED <<now, circuitBreaker, calls, openedAt, sinceHalfOpen, orchVars,
                   questions, handlers, rateLimiter, allowedTimes>>

\* memoryCache.has(key): an expired entry is deleted
CacheHasKey(key) ==
    /\ memoryCache' =
          IF key \in DOMAIN memoryCache.cache /\ Expired(memoryCache.cache[key], now)
          THEN Deleted(memoryCache, {key}) ELSE memoryCache
    /\ event' = CacheEvent("has", key, Cardinality(DOMAIN memoryCache.cache))
    /\ UNCHANGED <<now, circuitBreaker, calls, openedAt, sinceHalfOpen, orchVars,
                   questions, handlers, rateLimiter, allowedTimes>>

\* memoryCache.cleanup(): every expired entry is deleted
CacheCleanup ==
    /\ memoryCache' = Deleted(memoryCache,
                              {k \in DOMAIN memoryCache.cache :
                                 Expired(memoryCache.cache[k], now)})
    /\ event' = CacheEvent("cleanup", 0, Cardinality(DOMAIN memoryCache.cache))
    /\ UNCHANGED <<now, circuitBreaker, calls, openedAt, sinceHalfOpen, orchVars,
                   questions, handlers, rateLimiter, allowedTimes>>

\* memoryCache.clear()
CacheClear ==
    /\ memoryCache' = EmptyCache
    /\ event' = CacheEvent("clear", 0, Cardinality(DOMAIN memoryCache.cache))
    /\ UNCHANGED <<now, circuitBreaker, calls, openedAt, sinceHalfOpen, orchVars,
                   questions, handlers, rateLimiter, allowedTimes>>

\* the clock advances
TickCache ==
    /\ now < MaxTime
    /\ now' = now + 1
    /\ event' = CacheEvent("tick", 0, Cardinality(DOMAIN memoryCache.cache))
    /\ UNCHANGED <<circuitBreaker, calls, openedAt, sinceHalfOpen, orchVars, storeVars>>

(***************************************************************************)
(* cacheManager.js: RateLimiter                                            *)
(***************************************************************************)
maxRequests == 2
windowMs == 2

\* this.requests.get(identifier) || []
RequestTimes(limiter, identifier) ==
    IF identifier \in DOMAIN limiter.requests THEN limiter.requests[identifier] ELSE <<>>

\* mutant: the window is one tick shorter
validRequests_shorter(requestTimes, t) ==
    SelectSeq(requestTimes, LAMBDA time : time > t - windowMs + 1)

\* requestTimes.filter(time => time > windowStart), windowStart = now - windowMs
validRequests(requestTimes, t) ==
    SelectSeq(requestTimes, LAMBDA time : time > t - windowMs)

\* isAllowed(identifier) at time t: its result and the limiter it leaves
isAllowed(limiter, identifier, t) ==
    LET requestTimes == validRequests(RequestTimes(limiter, identifier), t)
        pushed == Append(requestTimes, t)
    IN  IF Len(requestTimes) >= maxRequests
        THEN [allowed |-> FALSE, remaining |-> 0,
              resetTime |-> requestTimes[1] + windowMs,
              limiter |-> limiter]
        ELSE [allowed |-> TRUE, remaining |-> maxRequests - Len(pushed),
              resetTime |-> t + windowMs,
              limiter |-> [requests |->
                             [i \in DOMAIN limiter.requests \cup {identifier} |->
                                IF i = identifier THEN pushed ELSE limiter.requests[i]]]]

\* cleanup(): identifiers without a request in the window are deleted, the others filtered
LimiterCleaned(limiter, t) ==
    LET kept == {i \in DOMAIN limiter.requests :
                   Len(validRequests(limiter.requests[i], t)) # 0}
    IN  [requests |-> [i \in kept |-> validRequests(limiter.requests[i], t)]]

\* the handler's rate limit check: rateLimiter.isAllowed(clientIP)
IsAllowed(identifier) ==
    LET result == isAllowed(rateLimiter, identifier, now)
    IN  /\ rateLimiter' = result.limiter
        /\ allowedTimes' =
              IF result.allowed
              THEN [allowedTimes EXCEPT ![identifier] = Append(@, now)]
              ELSE allowedTimes
        /\ event' = [op |-> "isAllowed", identifier |-> identifier,
                     allowed |-> result.allowed, remaining |-> result.remaining,
                     resetTime |-> result.resetTime]
        /\ UNCHANGED <<now, circuitBreaker, calls, openedAt, sinceHalfOpen, orchVars,
                       questions, handlers, memoryCache>>

\* the periodic rateLimiter.cleanup()
LimiterCleanup ==
    /\ rateLimiter' = LimiterCleaned(rateLimiter, now)
    /\ event' = [op |-> "cleanup", identifier |-> 0, allowed |-> FALSE, remaining |-> 0,
                 resetTime |-> 0]
    /\ UNCHANGED <<now, circuitBreaker, calls, openedAt, sinceHalfOpen, orchVars,
                   questions, handlers, memoryCache, allowedTimes>>

\* the clock advances
TickLimiter ==
    /\ now < MaxTime
    /\ now' = now + 1
    /\ event' = [op |-> "tick", identifier |-> 0, allowed |-> FALSE, remaining |-> 0,
                 resetTime |-> 0]
    /\ UNCHANGED <<circuitBreaker, calls, openedAt, sinceHalfOpen, orchVars, storeVars>>

(***************************************************************************)
(* Specifications                                                          *)
(***************************************************************************)
\* the modules are loaded and the service is constructed
Loaded ==
    /\ now = 0
    /\ circuitBreaker = InitialBreaker
    /\ calls = [c \in CallIds |-> IdleCall]
    /\ openedAt = NULL
    /\ sinceHalfOpen = 0
    /\ consecutiveFailures = 0
    /\ requests = [r \in ReqIds |-> IdleReq]
    /\ recentChallenges = <<>>
    /\ fallbackCache = <<>>
    /\ questions = [hash \in Hashes |-> 0]
    /\ handlers = [h \in HandlerIds |-> IdleHandler]
    /\ memoryCache = EmptyCache
    /\ rateLimiter = [requests |-> <<>>]
    /\ allowedTimes = [identifier \in Identifiers |-> <<>>]

InitCB ==
    /\ Loaded
    /\ event = [op |-> "init", c |-> 0, call |-> IdleCall, from |-> "closed", class |-> "none"]

NextCB ==
    \/ \E c \in CallIds, m \in 1..MaxAttemptsBound : StartCall(c, m)
    \/ \E c \in CallIds : WakeCall(c)
    \/ \E c \in CallIds : AttemptSucceeds(c)
    \/ \E c \in CallIds, e \in ErrorMessages : AttemptFails(c, e)
    \/ resetCircuitBreaker
    \/ TickCB

SpecCB == InitCB /\ [][NextCB]_vars

NextOrch ==
    \/ \E r \in ReqIds, f \in FilterValues : StartRequest(r, f)
    \/ \E r \in ReqIds : WakeRequest(r)
    \/ \E r \in ReqIds, e \in ModelErrors : ModelFails(r, e)
    \/ \E r \in ReqIds, text \in ModelTexts : ModelReturns(r, text)
    \/ reset
    \/ TickOrch

InitOrch ==
    /\ Loaded
    /\ event = Did("init", "none", "none", NoResult)

SpecOrch == InitOrch /\ [][NextOrch]_vars

\* the orchestrator when every response is one of the fenced responses
NextEndToEnd ==
    \/ \E r \in ReqIds, f \in FilterValues : StartRequest(r, f)
    \/ \E r \in ReqIds : WakeRequest(r)
    \/ \E r \in ReqIds, e \in ModelErrors : ModelFails(r, e)
    \/ \E r \in ReqIds, text \in FencedTexts : ModelReturns(r, text)
    \/ reset
    \/ TickOrch

SpecEndToEnd == InitOrch /\ [][NextEndToEnd]_vars

\* the handlers of POST /api/getQuestion between their awaits
NextUpsert ==
    \/ \E h \in HandlerIds, hash \in Hashes : Finalize(h, hash)
    \/ \E h \in HandlerIds : GetResolves(h)
    \/ \E h \in HandlerIds : SetResolves(h)
    \/ \E h \in HandlerIds : FirestoreFails(h)

InitUpsert ==
    /\ Loaded
    /\ event = [op |-> "init", h |-> 0, contentHash |-> 0, exists |-> FALSE,
                before |-> 0, after |-> 0]

SpecUpsert == InitUpsert /\ [][NextUpsert]_vars

NextFallback ==
    \/ \E f \in ProviderFilters : CallFallback(f)
    \/ IdleTime

InitFallback ==
    /\ Loaded
    /\ event = [Provided(NullFilters, FALSE, EmptyData("obj")) EXCEPT !.op = "init"]

SpecFallback == InitFallback /\ [][NextFallback]_vars

InitParse ==
    /\ Loaded
    /\ event \in {Argument(t) : t \in ParseTexts}

NextParse == ApplyParse

SpecParse == InitParse /\ [][NextParse]_vars

InitRepair ==
    /\ Loaded
    /\ event \in {Argument(t) : t \in RepairTexts}

NextRepair == ApplyRepair

SpecRepair == InitRepair /\ [][NextRepair]_vars

InitStream ==
    /\ Loaded
    /\ event \in {Argument(t) : t \in StreamTexts}

NextStream == \E chunkSize \in 1..MaxChunkSize : ApplyStreaming(chunkSize)

SpecStream == InitStream /\ [][NextStream]_vars

InitValidate ==
    /\ Loaded
    /\ event \in {[op |-> "data", data |-> data] : data \in ValidateInputs}

NextValidate == ApplyValidate

SpecValidate == InitValidate /\ [][NextValidate]_vars

InitSanitize ==
    /\ Loaded
    /\ event \in {Argument(t) : t \in SanitizeTexts}

NextSanitize ==
    \/ ApplySanitize
    \/ ApplySanitizeAgain

SpecSanitize == InitSanitize /\ [][NextSanitize]_vars

NextCache ==
    \/ \E key \in CacheKeys, pressure \in BOOLEAN : CacheSetKey(key, pressure)
    \/ \E key \in CacheKeys : CacheGetKey(key)
    \/ \E key \in CacheKeys : CacheHasKey(key)
    \/ CacheCleanup
    \/ CacheClear
    \/ TickCache

InitCache ==
    /\ Loaded
    /\ event = CacheEvent("init", 0, 0)

SpecCache == InitCache /\ [][NextCache]_vars

NextLimiter ==
    \/ \E identifier \in Identifiers : IsAllowed(identifier)
    \/ LimiterCleanup
    \/ TickLimiter

InitLimiter ==
    /\ Loaded
    /\ event = [op |-> "init", identifier |-> 0, allowed |-> FALSE, remaining |-> 0,
                resetTime |-> 0]

SpecLimiter == InitLimiter /\ [][NextLimiter]_vars

InitRecovery ==
    /\ Loaded
    /\ event \in {[op |-> "data", data |-> data] : data \in ParsedValues}

NextRecovery == ApplyRecovery

SpecRecovery == InitRecovery /\ [][NextRecovery]_vars

InitResponse ==
    /\ Loaded
    /\ event \in {Argument(t) : t \in ResponseTexts}

NextResponse == ApplyProcessResponse

SpecResponse == InitResponse /\ [][NextResponse]_vars

\* the timer of a backoff sleep fires; nothing makes the backend answer
SpecOrchLive ==
    InitOrch /\ [][NextOrch]_vars /\ WF_vars(\E r \in ReqIds : WakeRequest(r))

(***************************************************************************)
(* Retry claims, checked under SpecCB.  event.call is the call of the last *)
(* step with its counters: attempt is the iteration of the retry loop,     *)
(* invoked the number of invocations of the attempt function and rejected  *)
(* the number of iterations that the open breaker refused.                 *)
(***************************************************************************)
\* C11: an attempt that fails with an error classified as validation ends
\* the call: retryWithBackoff throws without a backoff sleep, whatever
\* maxAttempts is, and when that attempt is the first one the attempt
\* function has been invoked exactly once.
C11_ValidationNotRetried ==
    (event.op = "failure" /\ event.class = "validation") =>
        /\ event.call.pc = "thrown"
        /\ event.call.attempt = 1 => event.call.invoked = 1

C11_Witness ==
    /\ event.op = "failure" /\ event.class = "validation"
    /\ event.call.attempt = 1 /\ event.call.maxAttempts = 3
    /\ event.call.pc = "thrown" /\ event.call.invoked = 1

\* C12: an attempt that fails with a parsing or unknown error is followed by
\* a retry only when it is the first iteration, so a call whose failures are
\* all of these classes invokes the attempt function at most 2 times.
C12_RetriedAtMostOnce ==
    /\ event.call.invoked <= event.call.attempt
    /\ (event.op \in {"failure", "reject"} /\ event.class \in {"parsing", "unknown"}
        /\ event.call.attempt >= 2) => event.call.pc = "thrown"

C12_Witness ==
    /\ event.op = "failure" /\ event.class = "parsing"
    /\ event.call.attempt = 2 /\ event.call.maxAttempts = 3
    /\ event.call.invoked = 2 /\ event.call.pc = "thrown"

\* C13: a call never runs more than maxAttempts iterations, so it invokes the
\* attempt function at most maxAttempts times and sleeps at most
\* maxAttempts - 1 times, never after the final attempt; a network or
\* rate-limit failure ends the call only at attempt maxAttempts, and when no
\* iteration was refused by the breaker the attempt function has then been
\* invoked exactly maxAttempts times.
C13_BoundedAttempts ==
    /\ \A c \in CallIds :
          /\ calls[c].attempt <= calls[c].maxAttempts
          /\ calls[c].pc = "sleep" => calls[c].attempt < calls[c].maxAttempts
    /\ event.call.invoked <= event.call.attempt
    /\ event.call.attempt <= event.call.maxAttempts
    /\ (event.op = "failure" /\ event.class \in {"network", "api_limit"}
        /\ event.call.pc = "thrown") =>
          /\ event.call.attempt = event.call.maxAttempts
          /\ event.call.rejected = 0 => event.call.invoked = event.call.maxAttempts

C13_Witness ==
    /\ event.op = "failure" /\ event.class = "api_limit"
    /\ event.call.pc = "thrown" /\ event.call.rejected = 0
    /\ event.call.maxAttempts = 3 /\ event.call.invoked = 3
    /\ circuitBreaker.state = "closed"

(***************************************************************************)
(* Orchestrator claims, checked under SpecOrch.                            *)
(***************************************************************************)
FallbackSources == {"fallback", "fallback_cached", "emergency_fallback"}

\* C1: with fallback enabled no call of generateQuestionWithGemini rejects,
\* whatever the filters and whatever the models do: every call that ends
\* resolves to a Challenge.
C1_NeverRejects == event.outcome # "rejected"

\* C2: every Challenge that generateQuestionWithGemini returns, on the AI
\* branch, the pre-flight branch or the catch branch, passes validate with
\* confidence at least 0.6.
C2_ReturnedValid ==
    event.outcome = "returned" =>
        /\ validate(event.result).isValid
        /\ ~LessThan(validate(event.result).confidence, Lit06)

\* a model answer that needed the defaults was returned on the AI branch
C2_Witness ==
    /\ event.branch = "ai"
    /\ event.outcome = "returned"
    /\ event.result.title = Str("Coding Challenge")

\* C3: a request that starts while consecutiveFailures >= fallbackThreshold
\* ends in its first step, on the pre-flight branch, with a fallback
\* Challenge, and without invoking a model or touching the breaker.
C3_PreFlight ==
    [][(event'.op = "request" /\ consecutiveFailures >= fallbackThreshold) =>
          /\ event'.branch = "preflight"
          /\ event'.outcome = "returned"
          /\ event'.result.metadata.source \in FallbackSources
          /\ requests' = requests
          /\ circuitBreaker' = circuitBreaker]_vars

\* C4: a request that attempted generation and ends with the fallback adds
\* exactly 1 to consecutiveFailures in the step that ends it, and none of
\* its earlier steps (model failures, retries, moving on to the next model)
\* changes the counter.
C4_OneIncrement ==
    [][/\ event'.outcome = "pending" => consecutiveFailures' = consecutiveFailures
       /\ (/\ event'.branch = "catch"
           /\ event'.outcome = "returned"
           /\ (event'.op # "request" \/ consecutiveFailures < fallbackThreshold))
          => consecutiveFailures' = consecutiveFailures + 1]_vars

\* the last model failed for good and the request ended with a table fallback
C4_Witness ==
    /\ event.op = "modelFails"
    /\ event.branch = "catch"
    /\ event.outcome = "returned"
    /\ event.result.metadata.source = "fallback"
    /\ consecutiveFailures = event.before + 1

\* C5: when a request returns on the AI branch (model text that passed
\* parsing and validation), consecutiveFailures is 0.
C5_SuccessResets == event.branch = "ai" => consecutiveFailures = 0

\* a request returned an AI Challenge when the counter stood above 0
C5_Witness ==
    /\ event.branch = "ai"
    /\ event.outcome = "returned"
    /\ event.before > 0
    /\ consecutiveFailures = 0

\* C14: a request that waits for a backend model call does not wait for
\* ever: when the backend does not answer, the call is given up and the
\* request goes on to its retry, its next model or its fallback.  Checked
\* under SpecOrchLive, where only the program's own timers are fair.
C14_CallTimesOut ==
    \A r \in ReqIds : (requests[r].pc = "inflight") ~> (requests[r].pc # "inflight")

\* a step of request r that invokes callGeminiModel: the request awaits a
\* model afterwards and did not await that model before the step
Invokes(r) ==
    /\ requests'[r].pc = "inflight"
    /\ requests[r].pc # "inflight" \/ requests'[r].model # requests[r].model

\* C15: within one request the models are called in the configured order:
\* every invocation is that of a model of the list at attempt 1 or 2; the
\* first invocation of a request is that of the first model; after a sleep
\* the same model is invoked at the next attempt; another model is invoked
\* only in the step in which the awaited model's call has thrown, and it is
\* a later model at attempt 1 (so a request makes at most 2 x |models|
\* invocations); a request whose model returned text invokes nothing more.
C15_ModelOrder ==
    [][\A r \in ReqIds :
          /\ Invokes(r) =>
               /\ requests'[r].model \in 1..Len(Models)
               /\ requests'[r].call.attempt \in 1..2
               /\ requests[r].pc = "idle" =>
                    requests'[r].model = 1 /\ requests'[r].call.attempt = 1
               /\ requests[r].pc = "sleep" =>
                    /\ requests'[r].model = requests[r].model
                    /\ requests'[r].call.attempt = requests[r].call.attempt + 1
               /\ requests[r].pc = "inflight" =>
                    /\ event'.op = "modelFails"
                    /\ requests'[r].model = requests[r].model + 1
                    /\ requests'[r].call.attempt = 1
          /\ (requests[r].pc # "idle" /\ requests'[r].pc # "idle"
              /\ requests'[r] # requests[r]) =>
               /\ requests'[r].model >= requests[r].model
               /\ event'.op # "modelReturns"
      ]_vars

\* the second model is awaited at its second attempt after three failures
C15_Witness ==
    \E r \in ReqIds :
       /\ requests[r].pc = "inflight"
       /\ requests[r].model = Len(Models)
       /\ requests[r].call.attempt = 2
       /\ circuitBreaker.failureCount = 3
       /\ consecutiveFailures = 0

\* C16: a model's text longer than maxResponseSize is not parsed: the
\* request ends in the catch block, counts one failure and returns a
\* fallback Challenge, whose reason is the size error unless it is the
\* emergency one.
C16_OversizedRejected ==
    (event.op = "modelReturns" /\ event.length > maxResponseSize) =>
        /\ event.branch = "catch"
        /\ event.outcome = "returned"
        /\ consecutiveFailures = event.before + 1
        /\ event.result.metadata.source \in FallbackSources
        /\ event.result.metadata.source # "emergency_fallback" =>
              event.result.metadata.fallbackReason = "Response too large"

\* an oversized text that would have parsed into a valid Challenge
C16_Witness ==
    /\ event.op = "modelReturns"
    /\ event.length = maxResponseSize + 1
    /\ event.branch = "catch"
    /\ event.outcome = "returned"
    /\ event.before = 1
    /\ consecutiveFailures = 2
    /\ event.result.metadata.fallbackReason = "Response too large"

\* C17: every Challenge returned on the AI branch carries
\* metadata.source = "ai", whatever keys the model's output had.
C17_SourceAi ==
    (event.branch = "ai" /\ event.outcome = "returned") =>
        event.result.metadata.source = "ai"

\* C18: a request in which the call of the last model has thrown, so that
\* every configured model has failed, returns a Challenge whose
\* metadata.source is "fallback" or "emergency_fallback"; so does every such
\* request of a sequence.
C18_FallbackSource ==
    (event.op \in {"modelFails", "wake"} /\ event.branch = "catch") =>
        /\ event.outcome = "returned"
        /\ event.result.metadata.source \in {"fallback", "emergency_fallback"}

\* C21: in every Challenge a request returns, on the AI branch, the
\* pre-flight branch and the catch branch alike, testCases is an array and
\* the expected value of each of its entries is a string.
C21_ExpectedIsString ==
    event.outcome = "returned" =>
        /\ event.result.testCases.t = "arr"
        /\ \A i \in 1..Len(event.result.testCases.items) :
              event.result.testCases.items[i].expected.t = "str"

\* the model sent an array as expected value; it was returned as its string
C21_Witness ==
    /\ event.branch = "ai"
    /\ event.outcome = "returned"
    /\ Len(event.result.testCases.items) = 1
    /\ event.result.testCases.items[1].expected = Str("0,1")

\* C22: a request whose filters have a level and no difficulty, the level
\* naming a difficulty of the language served, gets its fallback Challenge
\* from that difficulty, on the pre-flight branch as on the catch branch.
C22_LevelIsDifficulty ==
    (/\ event.outcome = "returned"
     /\ event.branch \in {"preflight", "catch"}
     /\ event.result.metadata.source # "emergency_fallback"
     /\ event.filters.k = "obj"
     /\ event.filters.level.t = "str" /\ Truthy(event.filters.level)
     /\ ~Truthy(event.filters.difficulty)
     /\ \E i \in 1..Len(getAvailableDifficulties(event.result.language.v)) :
           ToLower(getAvailableDifficulties(event.result.language.v)[i])
              = ToLower(event.filters.level.v)) =>
        ToLower(event.result.difficulty.v) = ToLower(event.filters.level.v)

(***************************************************************************)
(* Fallback provider claims, checked under SpecFallback.  event is the     *)
(* last call of getFallbackChallenge.                                      *)
(***************************************************************************)
\* the filter field x is a string that equals none of keys in any letter case
Unmatched(keys, x) ==
    x.t = "str" /\ \A i \in 1..Len(keys) : ToLower(keys[i]) # ToLower(x.v)

\* the templates of the table under a served challenge's language and difficulty
BucketOf(challenge) ==
    Get(Get(FALLBACK_CHALLENGES, challenge.language.v), challenge.difficulty.v)

\* C19: for filters whose language and difficulty are strings or absent,
\* matched by the table or not, getFallbackChallenge does not throw and
\* formatFallbackChallenge accepts what it returns; the formatted Challenge
\* passes validate; an unmatched language is served as JavaScript, an
\* unmatched difficulty as the first difficulty of the language, and the
\* Challenge is a template of that bucket.
C19_FallbackSucceeds ==
    (/\ event.op = "fallback"
     /\ event.filters.k = "obj"
     /\ event.filters.language.t \in {"str", "absent"}
     /\ event.filters.difficulty.t \in {"str", "absent"}) =>
        /\ ~event.thrown
        /\ ~formatFallbackChallenge(event.challenge).thrown
        /\ validate(formatFallbackChallenge(event.challenge).challenge).isValid
        /\ Unmatched(ObjectKeys(FALLBACK_CHALLENGES), event.filters.language) =>
              event.challenge.language = Str("JavaScript")
        /\ Unmatched(getAvailableDifficulties(event.challenge.language.v),
                     event.filters.difficulty) =>
              event.challenge.difficulty =
                 Str(getAvailableDifficulties(event.challenge.language.v)[1])
        /\ \E i \in 1..Len(BucketOf(event.challenge)) :
              BucketOf(event.challenge)[i].title = event.challenge.title.v

\* an unknown language with an unknown difficulty was served from the table
C19_Witness ==
    /\ event.op = "fallback"
    /\ event.filters = Filters(Str("Klingon"), Str("Hard"), Absent)
    /\ ~event.thrown
    /\ event.challenge.metadata.source = "fallback"
    /\ event.challenge.language = Str("JavaScript")
    /\ event.challenge.difficulty = Str("Beginner")
    /\ event.challenge.title = Str("String Length")

\* title is one of the titles of the recent window
InWindow(recent, title) == \E i \in 1..Len(recent) : recent[i] = title

\* the bucket has a template whose title is not in the recent window
HasFresh(bucket, recent) == \E i \in 1..Len(bucket) : ~InWindow(recent, bucket[i].title)

\* C20: a call of getFallbackChallenge does not return a template whose
\* title is in the recent window while the matched bucket has a template
\* that is not; the window is only extended by the served title, or cleared
\* when every template of the bucket is in it; it never holds more than
\* MAX_RECENT_CHALLENGES titles.
C20_AntiRepetition ==
    [][(event'.op = "fallback" /\ ~event'.thrown) =>
          /\ InWindow(recentChallenges, event'.challenge.title.v) =>
                ~HasFresh(BucketOf(event'.challenge), recentChallenges)
          /\ recentChallenges' \notin
                {recentChallenges,
                 PushRecent(recentChallenges, event'.challenge.title.v)} =>
                ~HasFresh(BucketOf(event'.challenge), recentChallenges)
          /\ Len(recentChallenges') <= MAX_RECENT_CHALLENGES
      ]_vars

(***************************************************************************)
(* Parser claims, checked under SpecParse: event.text is the argument of   *)
(* parse and event.result what it returned.                                *)
(***************************************************************************)
\* C23: parse returns the result of the first of direct, extracted, repaired
\* and extracted-repaired that succeeds, under that method name, and method
\* 'failed' with success false only when none of the four succeeded.
C23_FirstSuccessWins ==
    event.op = "parse" =>
        /\ directParse(event.text).found =>
               event.result = ParseResult(directParse(event.text), "direct")
        /\ (~directParse(event.text).found /\ extractFirstObject(event.text).found) =>
               event.result = ParseResult(extractFirstObject(event.text), "extracted")
        /\ (/\ ~directParse(event.text).found
            /\ ~extractFirstObject(event.text).found
            /\ directParse(repairCommonIssues(event.text)).found) =>
               event.result =
                   ParseResult(directParse(repairCommonIssues(event.text)), "repaired")
        /\ (/\ ~directParse(event.text).found
            /\ ~extractFirstObject(event.text).found
            /\ ~directParse(repairCommonIssues(event.text)).found
            /\ extractFirstObject(repairCommonIssues(event.text)).found) =>
               event.result =
                   ParseResult(extractFirstObject(repairCommonIssues(event.text)),
                               "extracted-repaired")
        /\ event.result.method = "failed" =>
               /\ ~event.result.success
               /\ ~directParse(event.text).found
               /\ ~extractFirstObject(event.text).found
               /\ ~directParse(repairCommonIssues(event.text)).found
               /\ ~extractFirstObject(repairCommonIssues(event.text)).found

\* {a:1} is neither JSON nor holds a JSON object, and its repair is JSON
C23_Witness ==
    /\ event.op = "parse"
    /\ event.text = <<"{", "a", ":", "1", "}">>
    /\ event.result.success
    /\ event.result.method = "repaired"
    /\ event.result.data = JV("obj", <<>>, <<[key |-> <<"a">>, value |-> JV("num", <<"1">>, <<>>)]>>)

(***************************************************************************)
(* Repair claims, checked under SpecRepair: event.text is the argument of  *)
(* repairCommonIssues and event.result what it returned.                   *)
(***************************************************************************)
\* C24: a text that no replacement changes and that ends outside a string,
\* with k net unclosed braces and m net unclosed brackets outside strings,
\* comes back with exactly k closing braces and m closing brackets appended,
\* and unchanged when k and m are not positive.
C24_ExactClosers ==
    (/\ event.op = "repair"
     /\ replaceAll(event.text) = event.text
     /\ closeLastString(event.text) = event.text
     /\ ~Unbalanced(event.text).inString) =>
        event.result = event.text \o Repeat(<<"}">>, Unbalanced(event.text).openBraces)
                                  \o Repeat(<<"]">>, Unbalanced(event.text).openBrackets)

(***************************************************************************)
(* Streaming claims, checked under SpecStream: event.selected is the       *)
(* substring the chunked scanner selected in event.text and event.result   *)
(* what extractJSONFromLargeString returned or threw.                      *)
(***************************************************************************)
\* C25: whatever the chunk size, the chunked scanner selects the substring
\* that extractFirstObject selects, and returns the object extractFirstObject
\* returns or throws where extractFirstObject returns null.
C25_ChunkedEqualsUnchunked ==
    event.op = "stream" =>
        /\ event.selected = firstObjectText(event.text)
        /\ event.result.thrown = ~extractFirstObject(event.text).found
        /\ event.result.value = extractFirstObject(event.text).value

(***************************************************************************)
(* Validator claims, checked under SpecValidate: event.data is the         *)
(* argument of validate and event.result what it returned.                 *)
(***************************************************************************)
\* C26: the confidence validate returns is at least 0 and at most 1.
C26_ConfidenceInUnitInterval ==
    event.op = "validate" =>
        /\ ~LessThan(event.result.confidence, Double(0, 0))
        /\ ~LessThan(One, event.result.confidence)

\* C27: isValid is false exactly when the confidence is below 0.6, and an
\* object without any of the 7 required fields gets a confidence of at most
\* 0.3 (the double [6, -32]) and isValid false.
C27_InvalidBelowThreshold ==
    event.op = "validate" =>
        /\ ~event.result.isValid <=> LessThan(event.result.confidence, Lit06)
        /\ (event.data.k = "obj" /\ Missing(event.data) = 7) =>
               /\ ~LessThan(Double(6, -32), event.result.confidence)
               /\ ~event.result.isValid

\* the empty object: 1.0 - 0.1 * 7 is 0.29999999999999993
C27_Witness ==
    /\ event.op = "validate"
    /\ event.data = EmptyData("obj")
    /\ event.result = [isValid |-> FALSE, confidence |-> Double(6, -192)]

(***************************************************************************)
(* Sanitizer claims, checked under SpecSanitize: event.first is what       *)
(* sanitize returned for event.text and event.result what it returned for  *)
(* event.first.                                                            *)
(***************************************************************************)
\* C28: sanitizing a sanitized text changes nothing.
C28_SanitizeIdempotent ==
    event.op = "sanitizeAgain" => event.result = event.first

(***************************************************************************)
(* Circuit breaker claims, checked under SpecCB.                           *)
(***************************************************************************)
CoolingDown ==
    /\ circuitBreaker.state = "open"
    /\ now - circuitBreaker.lastFailureTime <= circuitBreakerTimeout

C7_OpenRejects ==
    [][/\ (CoolingDown /\ event'.op \in {"invoke", "reject"}) =>
            /\ event'.op = "reject"
            /\ event'.call.pc \in {"sleep", "thrown"}
            /\ event'.call.rejected > 0
       /\ (/\ CoolingDown
           /\ \E c \in CallIds : calls[c].pc = "sleep" /\ calls[c].rejected > 0
           /\ event'.op # "reset") =>
            /\ circuitBreaker'.state = "open"
            /\ now' - circuitBreaker'.lastFailureTime <= circuitBreakerTimeout
       /\ (event'.op = "reject" /\ event'.call.pc = "sleep") =>
            event'.call.attempt < event'.call.maxAttempts]_cbVars

C7_Witness ==
    /\ event.op = "reject"
    /\ event.call.pc = "thrown"
    /\ event.call.rejected = 2
    /\ event.call.attempt = 2
    /\ CoolingDown

\* C8: once the breaker has opened, the first call that arrives more than
\* circuitBreakerTimeout after the opening is admitted (half_open, attempt
\* function invoked), however many calls were rejected in between.
C8_AdmittedAfterCooldown ==
    [][(/\ circuitBreaker.state = "open"
        /\ now - openedAt > circuitBreakerTimeout
        /\ event'.op \in {"invoke", "reject"}
        /\ event'.call.attempt = 1) =>
            /\ event'.op = "invoke"
            /\ circuitBreaker'.state = "half_open"]_cbVars

C10_HalfOpenFailureOpens ==
    [][/\ (circuitBreaker.state = "half_open" /\ event'.op = "failure") =>
            /\ circuitBreaker'.state = "open"
            /\ circuitBreaker'.lastFailureTime = now
            /\ openedAt' = now
       /\ (circuitBreaker.state = "open" /\ event'.op = "invoke") =>
            now - openedAt > circuitBreakerTimeout]_cbVars

C10_Witness ==
    /\ event.op = "failure"
    /\ event.from = "half_open"
    /\ circuitBreaker.state = "open"
    /\ circuitBreaker.lastFailureTime = now

(***************************************************************************)
(* End-to-end claims, checked under SpecEndToEnd: every response is one of *)
(* FencedResponses.                                                        *)
(***************************************************************************)
\* C29: a response whose only defects are a markdown json fence, unquoted
\* keys, a single-quoted string and a trailing comma is accepted: the
\* request that receives it returns a Challenge from the model, with
\* metadata.source 'ai', and the expected value [0,1] of its test case has
\* become the string "[0,1]".
C29_DefectsRepaired ==
    event.op = "modelReturns" =>
        /\ event.branch = "ai"
        /\ event.outcome = "returned"
        /\ event.result.metadata.source = "ai"
        /\ event.result.testCases.t = "arr"
        /\ Len(event.result.testCases.items) = 1
        /\ event.result.testCases.items[1].expected = Str("[0,1]")

(***************************************************************************)
(* Persistence claims, checked under SpecUpsert.                           *)
(***************************************************************************)
\* C30: the upsert is idempotent: whatever the order in which the requests
\* that finalize a Challenge with the same content hash take their steps,
\* the record of that hash is written at most once, and a request that finds
\* the record present does not write.
C30_WrittenAtMostOnce ==
    /\ \A hash \in Hashes : questions[hash] <= 1
    /\ (event.op = "get" /\ event.exists) =>
          (event.after = event.before /\ handlers[event.h].pc = "idle")

(***************************************************************************)
(* Breaker claims on rejected calls and on the breaker's fields, checked   *)
(* under SpecCB.                                                           *)
(***************************************************************************)
\* C31: a retryWithBackoff call that starts while the breaker is open and
\* the cooldown has not elapsed is rejected immediately: its first iteration
\* is refused and the call throws without a backoff sleep, whatever
\* maxAttempts is.
C31_RejectedImmediately ==
    (event.op = "reject" /\ event.call.attempt = 1) => event.call.pc = "thrown"

\* the transitions of CircuitBreakerState.state that the retry loop makes
BreakerEdges ==
    {<<"closed", "open">>, <<"open", "half_open">>,
     <<"half_open", "closed">>, <<"half_open", "open">>}

C34_RejectionLeavesBreaker ==
    [][event'.op = "reject" => circuitBreaker' = circuitBreaker]_cbVars

\* C36: with every caller on the default threshold, in every reachable
\* state failureCount >= 0; a closed breaker has failureCount below the
\* threshold; an open or half_open breaker has failureCount at or above the
\* threshold and a lastFailureTime that is not null.
C36_BreakerInvariant ==
    /\ circuitBreaker.failureCount >= 0
    /\ circuitBreaker.state \in {"closed", "open", "half_open"}
    /\ circuitBreaker.state = "closed" =>
          circuitBreaker.failureCount < circuitBreakerThreshold
    /\ circuitBreaker.state \in {"open", "half_open"} =>
          /\ circuitBreaker.failureCount >= circuitBreakerThreshold
          /\ circuitBreaker.lastFailureTime # NULL

C36_Witness ==
    /\ circuitBreaker.state = "half_open"
    /\ circuitBreaker.failureCount = circuitBreakerThreshold + 1
    /\ circuitBreaker.successCount = 1
    /\ circuitBreaker.lastFailureTime # NULL

(***************************************************************************)
(* Orchestrator claims on parse failures and on the fallback latch,        *)
(* checked under SpecOrch.                                                 *)
(***************************************************************************)
\* C33: a text that no parsing strategy can parse is retried once: when the
\* first generation of a request (first model, first attempt) returns such a
\* text, the request does not end with a fallback in that step; it asks the
\* backend for a fresh generation first.
C33_ParseFailureRetried ==
    [][\A r \in ReqIds :
         (/\ requests[r].pc = "inflight"
          /\ requests[r].model = 1
          /\ requests[r].call.attempt = 1
          /\ event'.op = "modelReturns"
          /\ event'.branch = "catch"
          /\ event'.result.metadata.fallbackReason = "Parsing failed: JSON parsing failed")
         => requests'[r].pc \in {"inflight", "sleep"}]_vars

\* C35: the fallback latch.  With fallback enabled, once consecutiveFailures
\* has reached fallbackThreshold and no request is in flight, every later
\* request returns a fallback without calling a model, and nothing but
\* reset() changes consecutiveFailures: the service does not return to AI
\* generation by itself.
C35_FallbackLatch ==
    [][(/\ enableFallback
        /\ consecutiveFailures >= fallbackThreshold
        /\ \A r \in ReqIds : requests[r].pc = "idle"
        /\ event'.op # "resetService") =>
           /\ consecutiveFailures' = consecutiveFailures
           /\ circuitBreaker' = circuitBreaker
           /\ requests' = requests
           /\ event'.op = "request" =>
                /\ event'.outcome = "returned"
                /\ event'.result.metadata.source \in FallbackSources]_vars

DefaultChallenge == applyDefaults(EmptyData("obj"))

C39_AtMostMaxSize ==
    /\ Cardinality(DOMAIN memoryCache.cache) <= maxSize
    /\ DOMAIN memoryCache.cache = MapKeys(memoryCache.accessOrder)
    /\ Len(memoryCache.accessOrder) = Cardinality(DOMAIN memoryCache.cache)

\* the times in allowedTimes[identifier] that lie in the interval from..to
AllowedWithin(identifier, from, to) ==
    {i \in 1..Len(allowedTimes[identifier]) :
       /\ from <= allowedTimes[identifier][i]
       /\ allowedTimes[identifier][i] <= to}

\* in every window (T, T + windowMs] no identifier was allowed more than maxRequests times
HalfOpenWindows ==
    \A identifier \in Identifiers, T \in (0 - windowMs)..MaxTime :
        Cardinality(AllowedWithin(identifier, T + 1, T + windowMs)) <= maxRequests

\* in every interval [T, T + windowMs] no identifier was allowed more than maxRequests times
ClosedWindows ==
    \A identifier \in Identifiers, T \in (0 - windowMs)..MaxTime :
        Cardinality(AllowedWithin(identifier, T, T + windowMs)) <= maxRequests

\* a denied call leaves the limiter and the record of allowed calls as they were
DeniedNotRecorded ==
    (event'.op = "isAllowed" /\ ~event'.allowed) =>
        /\ rateLimiter' = rateLimiter
        /\ allowedTimes' = allowedTimes

\* a call for one identifier is decided by that identifier's requests alone and
\* changes no other identifier's requests
IdentifiersIndependent ==
    event'.op = "isAllowed" =>
        /\ \A other \in Identifiers \ {event'.identifier} :
              /\ RequestTimes(rateLimiter', other) = RequestTimes(rateLimiter, other)
              /\ allowedTimes'[other] = allowedTimes[other]
        /\ event'.allowed =
              isAllowed([requests |-> [i \in DOMAIN rateLimiter.requests
                                            \cap {event'.identifier} |->
                                          rateLimiter.requests[i]]],
                        event'.identifier, now).allowed

\* C40 (as stated): in every time interval of length windowMs, its two ends included,
\* at most maxRequests calls of isAllowed per identifier return allowed; a denied call
\* is not recorded; identifiers do not affect one another
C40_ClosedWindow ==
    /\ []ClosedWindows
    /\ [][DeniedNotRecorded /\ IdentifiersIndependent]_vars

\* C40 (amended): in every half-open time interval (T, T + windowMs] at most maxRequests
\* calls of isAllowed per identifier return allowed; a denied call is not recorded and
\* consumes no quota; identifiers do not affect one another
C40_SlidingWindow ==
    /\ []HalfOpenWindows
    /\ [][DeniedNotRecorded /\ IdentifiersIndependent]_vars

\* one identifier has used its quota and is denied while the other was allowed in the
\* same window
C40_Witness ==
    /\ event.op = "isAllowed"
    /\ ~event.allowed
    /\ Cardinality(AllowedWithin(event.identifier, now - windowMs + 1, now)) = maxRequests
    /\ \E other \in Identifiers \ {event.identifier} :
          AllowedWithin(other, now - windowMs + 1, now) # {}

====
